---- MODULE Spec2Model ----
(***************************************************************************)
(* RateSense: the numerical loan-simulation engines, the risk label, the     *)
(* refinance estimate and the click handler of the calculator form.         *)
(*                                                                          *)
(* Every engine is a month-by-month loop.  A behaviour of this module is    *)
(* one call of one engine: Init draws the engine and its arguments, the     *)
(* "enter" action runs the code before the loop, the "iter" action runs one *)
(* iteration of the loop and the "return" action runs the code after it.    *)
(*                                                                          *)
(* Numbers.  The code computes in IEEE doubles; the model computes in       *)
(* fixed point.  Money is an integer number of 1/Scale dollars, a rate is   *)
(* an integer number of percent per year, and every division rounds to the  *)
(* nearest unit (RDiv).  The two-cent epsilon of the loops, 0.01, is        *)
(* EPS = Scale/100 units, so that the rounding of one month (about one      *)
(* unit) stays well below it, as it does in doubles.                        *)
(***************************************************************************)
EXTENDS Integers, Sequences, FiniteSets, TLC

\* ---------------------------------------------------------------- bounds
MaxTerm == 6

LongTerm == 1201

\* the clicks of one visit of a page
MaxClicks == 4

\* ------------------------------------------------------- number helpers
Scale == 10^4

PowScale == 10^5

EPS == Scale \div 100

Dollar == Scale

NaN == 0 - 10^6

Null == NaN - 1

Infinity == 10^6

isFinite(x) == x # NaN /\ x # Null /\ x # Infinity /\ x # 0 - Infinity

Max(a, b) == IF a >= b THEN a ELSE b

Min(a, b) == IF a <= b THEN a ELSE b

\* a / b rounded to the nearest integer (b > 0)
RDiv(a, b) == (2 * a + b) \div (2 * b)

\* balance * (apr/100/12)
InterestOf(bal, apr) == RDiv(bal * apr, 1200)

\* (1 + r)^k in units of 1/PowScale, r = apr/1200
RECURSIVE PowQ(_, _)
PowQ(apr, k) == IF k = 0 THEN PowScale ELSE RDiv(PowQ(apr, k - 1) * (1200 + apr), 1200)

\* 1 + (1+r) + ... + (1+r)^(n-1) = ((1+r)^n - 1) / r, in units of 1/PowScale
RECURSIVE GeoSum(_, _)
GeoSum(apr, n) == IF n = 0 THEN 0 ELSE GeoSum(apr, n - 1) + PowQ(apr, n - 1)

\* P * (r * pow) / (pow - 1) with pow = (1+r)^n.  Because pow - 1 = r * G
\* with G the geometric sum, this is P * r + P / G; the model evaluates that
\* form, which loses no precision to the cancellation in pow - 1.
Annuity(P, apr, n) == InterestOf(P, apr) + RDiv(P * PowScale, GeoSum(apr, n))

\* monthlyPaymentAmortized(principal, aprPercent, years), n = years * 12
monthlyPaymentAmortized(P, apr, n) == IF apr = 0 THEN RDiv(P, n) ELSE Annuity(P, apr, n)

\* ------------------------------------------------------------ constants
MAX_MONTHS == 1200

CC_MAX_MONTHS == 600

\* ---------------------------------------------------------------- state
VARIABLES eng, cfg, pc, month, balance, rows, totalInterest, totalPaid,
          currentApr, currentPayment, manualIdx, usedIndex, acc, out

loopVars == <<month, balance, rows, totalInterest, totalPaid>>

stressVars == <<currentApr, currentPayment, manualIdx, usedIndex, acc>>

vars == <<eng, cfg, pc, month, balance, rows, totalInterest, totalPaid,
          currentApr, currentPayment, manualIdx, usedIndex, acc, out>>

\* the value of the variables an engine does not use
NoOut == [status |-> ""]

NoAcc == [worstPayment |-> 0, worstMonth |-> 1, peakRate |-> 0, peakMonth |-> 1]

\* x % y === 0 in JavaScript, for x >= 0: false when y is 0 (NaN), and the
\* sign of the divisor is ignored
JsRemIsZero(x, y) == y # 0 /\ x % (IF y < 0 THEN 0 - y ELSE y) = 0

\* x % y === 1 in JavaScript, for x >= 0
JsRemIsOne(x, y) == y # 0 /\ x % (IF y < 0 THEN 0 - y ELSE y) = 1

\* ------------------------------------------------------------ risk labels
\* the label shown when a payment is missing or not positive (an em dash)
NoRisk == "-"

\* riskScore(startPay, worstPay) of the stress page; jump <= 0.10 is
\* 100 * (worstPay - startPay) <= 10 * startPay, as startPay > 0
riskScore(startPay, worstPay) ==
    IF ~(startPay > 0) \/ ~(worstPay > 0) THEN NoRisk
    ELSE IF 100 * (worstPay - startPay) <= 10 * startPay THEN "Low"
    ELSE IF 100 * (worstPay - startPay) <= 25 * startPay THEN "Moderate"
    ELSE IF 100 * (worstPay - startPay) <= 45 * startPay THEN "High"
    ELSE "Severe"

\* riskScoreFromJump(startPayment, worstPayment).score of the app
riskScoreFromJump(startPayment, worstPayment) ==
    IF ~(startPayment > 0 /\ worstPayment > 0) THEN NoRisk
    ELSE IF 100 * (worstPayment - startPayment) <= 10 * startPayment THEN "Low"
    ELSE IF 100 * (worstPayment - startPayment) <= 25 * startPayment THEN "Medium"
    ELSE "High"

\* ------------------------------------------------ amortizationSchedule
Principals == {6000, Dollar}

Aprs == {0, 12, 24}

Extras == {0 - 500, 0, 500}

AmortInputs ==
    [principal : Principals, aprPercent : Aprs, months : 1..MaxTerm, extraMonthly : Extras]
    \cup [principal : {100 * Dollar}, aprPercent : {0}, months : {LongTerm}, extraMonthly : {0}]
    \cup [principal : {5 * EPS}, aprPercent : {0}, months : {MaxTerm}, extraMonthly : {0}]

\* const extra = Math.max(0, extraMonthly || 0)
AmortExtra(c) == Max(0, c.extraMonthly)

AmortBase(c) == monthlyPaymentAmortized(c.principal, c.aprPercent, c.months)

amortizationSchedule_enter ==
    /\ eng = "amortizationSchedule" /\ pc = "call"
    /\ balance' = cfg.principal
    /\ month' = 0
    /\ totalInterest' = 0
    /\ totalPaid' = 0
    /\ rows' = <<>>
    /\ pc' = "loop"
    /\ UNCHANGED <<eng, cfg, stressVars, out>>

amortizationSchedule_iter ==
    /\ eng = "amortizationSchedule" /\ pc = "loop"
    /\ balance > EPS /\ month < MAX_MONTHS
    /\ LET interest == IF cfg.aprPercent = 0 THEN 0 ELSE InterestOf(balance, cfg.aprPercent)
           payment == Min(AmortBase(cfg) + AmortExtra(cfg), balance + interest)
           principalPaid == payment - interest
       IN /\ month' = month + 1
          /\ balance' = balance - principalPaid
          /\ totalInterest' = totalInterest + interest
          /\ totalPaid' = totalPaid + payment
          /\ rows' = Append(rows, [month |-> month + 1, payment |-> payment,
                                   interest |-> interest, principal |-> principalPaid,
                                   balance |-> Max(0, balance - principalPaid),
                                   apr |-> cfg.aprPercent, start |-> balance,
                                   sched |-> AmortBase(cfg)])
    /\ UNCHANGED <<eng, cfg, pc, stressVars, out>>

\* faulty variant: the scheduled payment without the extra amount is reported
AmortReportedBase_Scheduled(c, schedule) == AmortBase(c)

\* monthlyPaymentBase: schedule[0]?.payment ?? NaN
AmortReportedBase(c, schedule) == IF schedule = <<>> THEN NaN ELSE schedule[1].payment

amortizationSchedule_return ==
    /\ eng = "amortizationSchedule" /\ pc = "loop"
    /\ ~(balance > EPS /\ month < MAX_MONTHS)
    /\ pc' = "done"
    /\ out' = [status |-> "", totalInterest |-> totalInterest,
                totalPaid |-> totalPaid, months |-> Len(rows),
                monthlyPaymentBase |-> AmortReportedBase(cfg, rows)]
    /\ UNCHANGED <<eng, cfg, loopVars, stressVars>>

\* ------------------------------------- app.js: the stress test (Steps + ARM)
\* The values of the stress form after safeNum; a term and a fixed period are
\* given in months (termYears * 12, fixedYears * 12).  The preset selector is
\* at "custom", so applyStressPreset() leaves the fields as they are, and the
\* ARM index source is "manual", so indexRate is the value typed in the form.
StepSizes == {0 - 6, 0, 6}

EveryRaw == {0 - 2, 0, 1, 2, 3}

DurationRaw == {0, 3, MaxTerm}

Caps == {NaN, 15}

StepsUI ==
    [mode : {"steps"}, P0 : {Dollar}, termMonths : 1..MaxTerm, startApr : {0, 12},
     extra : {0, 500}, step : StepSizes, every : EveryRaw, duration : DurationRaw,
     cap : Caps]

ArmUI ==
    [mode : {"arm"}, P0 : {Dollar}, termMonths : 2..MaxTerm, startApr : {12},
     extra : {0}, fixedYears12 : {0, 1, 2}, adjustEveryMonths : {0, 1, 2, 3},
     indexRate : {6, 30}, margin : {0 - 3, 2}, periodicCap : {NaN, 0 - 4, 4},
     lifetimeCap : {NaN, 3}, floorRate : {NaN, 17}, simYears12 : {NaN, 3},
     armIndexSource : {"manual"}, lastTsy : {Null}]

\* the form with the index source at "treasury": lastTsy is Null before any
\* fetch of Treasury yields succeeded, else the yield of the chosen maturity
\* (NaN when the feed has no value for it)
TreasuryUI ==
    [mode : {"arm"}, P0 : {Dollar}, termMonths : {3, MaxTerm}, startApr : {12},
     extra : {0}, fixedYears12 : {1}, adjustEveryMonths : {1},
     indexRate : {NaN, 6}, margin : {2}, periodicCap : {NaN},
     lifetimeCap : {NaN}, floorRate : {NaN}, simYears12 : {NaN},
     armIndexSource : {"treasury"}, lastTsy : {Null, NaN, 5}]

RejectedUI ==
    ([mode : {"steps"}, P0 : {0, Dollar}, termMonths : {0, 3}, startApr : {0 - 1, 12},
      extra : {0}, step : {6}, every : {1}, duration : {3}, cap : {NaN}]
     \ [mode : {"steps"}, P0 : {Dollar}, termMonths : {3}, startApr : {12},
        extra : {0}, step : {6}, every : {1}, duration : {3}, cap : {NaN}])
    \cup [mode : {"arm"}, P0 : {Dollar}, termMonths : {3}, startApr : {12},
          extra : {0}, fixedYears12 : {1}, adjustEveryMonths : {1},
          indexRate : {NaN, 0 - 1}, margin : {2}, periodicCap : {NaN},
          lifetimeCap : {NaN}, floorRate : {NaN}, simYears12 : {NaN},
          armIndexSource : {"manual"}, lastTsy : {Null}]

\* if (st.armIndexSource.value === "treasury") { if (!lastTsy) { ... return; } }
ArmTreasuryMissing(c) == c.armIndexSource = "treasury" /\ c.lastTsy = Null

\* syncArmIndexFromTreasury, then safeNum(st.armIndexValue.value, NaN): a
\* finite yield of the feed replaces the typed index value
ArmIndexValue(c) ==
    IF c.armIndexSource = "treasury" /\ c.lastTsy # Null /\ isFinite(c.lastTsy)
    THEN c.lastTsy ELSE c.indexRate

\* const everyMonths = Math.max(1, Math.round(safeNum(st.every.value, 3)))
StepsEveryMonths(c) == Max(1, c.every)

\* const durationMonths = Math.max(1, Math.round(safeNum(st.duration.value, 24)))
StepsDurationMonths(c) == Max(1, c.duration)

\* buildRatePathSteps(baseApr, stepPct, everyMonths, durationMonths, capApr):
\* the apr pushed for month m, 1 <= m <= durationMonths
RECURSIVE buildRatePathSteps(_, _, _, _, _)
buildRatePathSteps(baseApr, stepPct, everyMonths, capApr, m) ==
    IF m <= 1 THEN baseApr
    ELSE LET prev == buildRatePathSteps(baseApr, stepPct, everyMonths, capApr, m - 1)
         IN IF JsRemIsZero(m - 1, everyMonths)
            THEN (IF isFinite(capApr) THEN Min(prev + stepPct, capApr) ELSE prev + stepPct)
            ELSE prev

\* faulty variant: a fixed period one month short
ArmFixedMonths_OneShort(c) == Max(0, c.fixedYears12 - 1)

\* buildRatePathARM: the locals computed before the loops
ArmFixedMonths(c) == Max(0, c.fixedYears12)

ArmAdjEvery(c) == Max(1, Max(1, c.adjustEveryMonths))

ArmCapPer(c) == IF isFinite(c.periodicCap) THEN Max(0, c.periodicCap) ELSE NaN

ArmCapLife(c) == IF isFinite(c.lifetimeCap) THEN Max(0, c.lifetimeCap) ELSE NaN

\* const simMonthsMax = isFinite(simYears) && simYears > 0 ? Math.round(simYears * 12) : null
ArmSimMonthsMax(c) == IF isFinite(c.simYears12) /\ c.simYears12 > 0 THEN c.simYears12 ELSE Null

\* simMonthsMax: simMonthsMax ?? 600, then Math.max(1, simMonthsMax || 600)
ArmMaxMonths(c) ==
    LET passed == IF ArmSimMonthsMax(c) = Null THEN 600 ELSE ArmSimMonthsMax(c)
    IN Max(1, IF passed = 0 THEN 600 ELSE passed)

\* faulty variant: the floor is applied before the lifetime cap
ArmResetRate_FloorFirst(c, last) ==
    LET targetBase == ArmIndexValue(c) + c.margin
        t1 == IF isFinite(ArmCapPer(c))
              THEN Min(last + ArmCapPer(c), Max(last - ArmCapPer(c), targetBase))
              ELSE targetBase
        t2 == IF isFinite(c.floorRate) THEN Max(c.floorRate, t1) ELSE t1
    IN IF isFinite(ArmCapLife(c)) THEN Min(c.startApr + ArmCapLife(c), t2) ELSE t2

\* the rate of one reset: index + margin, periodic cap, lifetime cap, floor
ArmResetRate(c, last) ==
    LET targetBase == ArmIndexValue(c) + c.margin
        t1 == IF isFinite(ArmCapPer(c))
              THEN Min(last + ArmCapPer(c), Max(last - ArmCapPer(c), targetBase))
              ELSE targetBase
        t2 == IF isFinite(ArmCapLife(c)) THEN Min(c.startApr + ArmCapLife(c), t1) ELSE t1
    IN IF isFinite(c.floorRate) THEN Max(c.floorRate, t2) ELSE t2

\* buildRatePathARM: the value of `last` after the second loop has handled
\* month m (m > fixedMonths)
RECURSIVE ArmLast(_, _)
ArmLast(c, m) ==
    IF m <= ArmFixedMonths(c) THEN c.startApr
    ELSE LET last == ArmLast(c, m - 1)
         IN IF (m - (ArmFixedMonths(c) + 1)) % ArmAdjEvery(c) = 0
            THEN ArmResetRate(c, last)
            ELSE last

\* ratePath.get(m) for the map runStressTest hands to the simulation; Null
\* when the map has no entry for m
RatePathGet(c, m) ==
    IF c.mode = "steps"
    THEN (IF m <= StepsDurationMonths(c)
          THEN buildRatePathSteps(c.startApr, c.step, StepsEveryMonths(c), c.cap, m)
          ELSE Null)
    ELSE (IF m <= ArmMaxMonths(c) THEN ArmLast(c, m) ELSE Null)

\* simulateStressAmortized: stopM
StressStopAfter(c) == IF c.mode = "steps" THEN Null ELSE ArmSimMonthsMax(c)

StressStopM(c) ==
    IF StressStopAfter(c) = Null \/ StressStopAfter(c) = 0
    THEN c.termMonths
    ELSE Min(c.termMonths, StressStopAfter(c))

\* if (pathEntry != null && pathEntry !== currentApr)
StressRateChanged(pathEntry, cur) == pathEntry # Null /\ pathEntry # cur

\* faulty variant: the month being simulated is counted as already elapsed
StressRemainingMonths_OffByOne(c, m) == Max(1, c.termMonths - m)

\* const remainingMonths = Math.max(1, totalMonths - (month-1))
StressRemainingMonths(c, m) == Max(1, c.termMonths - (m - 1))

\* runStressTest up to the call of simulateStressAmortized, and that call up
\* to its loop
runStressTest_enter ==
    /\ eng = "runStressTest" /\ pc = "call"
    /\ IF ~(cfg.P0 > 0 /\ cfg.termMonths > 0 /\ cfg.startApr >= 0)
       THEN /\ pc' = "done"
            /\ out' = [status |-> "Fill in starting balance, term years, and starting interest rate."]
            /\ UNCHANGED <<loopVars, stressVars>>
       ELSE IF cfg.mode = "arm" /\ ArmTreasuryMissing(cfg)
       THEN /\ pc' = "done"
            /\ out' = [status |-> "Fetch Treasury yields in Live Rates first (or switch index source to Manual)."]
            /\ UNCHANGED <<loopVars, stressVars>>
       ELSE IF cfg.mode = "arm" /\ ~(ArmIndexValue(cfg) >= 0)
       THEN /\ pc' = "done"
            /\ out' = [status |-> "Enter an index rate (0 or higher)."]
            /\ UNCHANGED <<loopVars, stressVars>>
       ELSE /\ pc' = "loop"
            /\ balance' = cfg.P0
            /\ totalInterest' = 0
            /\ month' = 0
            /\ currentApr' = cfg.startApr
            /\ currentPayment' = monthlyPaymentAmortized(cfg.P0, cfg.startApr, cfg.termMonths)
            /\ rows' = <<>>
            /\ UNCHANGED <<totalPaid, manualIdx, usedIndex, acc, out>>
    /\ UNCHANGED <<eng, cfg>>

simulateStressAmortized_iter ==
    /\ eng = "runStressTest" /\ pc = "loop"
    /\ balance > EPS /\ month < MAX_MONTHS /\ month < StressStopM(cfg)
    /\ LET m == month + 1
           pathEntry == RatePathGet(cfg, m)
           changed == StressRateChanged(pathEntry, currentApr)
           apr == IF changed THEN pathEntry ELSE currentApr
           remainingMonths == StressRemainingMonths(cfg, m)
           sched == IF changed THEN monthlyPaymentAmortized(balance, apr, remainingMonths)
                    ELSE currentPayment
           interest == IF apr = 0 THEN 0 ELSE InterestOf(balance, apr)
           payment == Min(sched + Max(0, cfg.extra), balance + interest)
           principalPaid == payment - interest
       IN /\ month' = m
          /\ currentApr' = apr
          /\ currentPayment' = sched
          /\ balance' = balance - principalPaid
          /\ totalInterest' = totalInterest + interest
          /\ rows' = Append(rows, [month |-> m, apr |-> apr, payment |-> payment,
                                   interest |-> interest, principal |-> principalPaid,
                                   balance |-> Max(0, balance - principalPaid),
                                   start |-> balance, sched |-> sched])
    /\ UNCHANGED <<eng, cfg, pc, totalPaid, manualIdx, usedIndex, acc, out>>

\* the first row with the largest payment (summarizeStress: r.payment > worst.payment)
RECURSIVE WorstRow(_, _)
WorstRow(rs, k) ==
    IF k = 1 THEN rs[1]
    ELSE LET w == WorstRow(rs, k - 1) IN IF rs[k].payment > w.payment THEN rs[k] ELSE w

RECURSIVE PeakApr(_, _)
PeakApr(rs, k) ==
    IF k = 1 THEN rs[1].apr
    ELSE LET p == PeakApr(rs, k - 1) IN IF rs[k].apr > p THEN rs[k].apr ELSE p

\* the return of simulateStressAmortized, then summarizeStress(sim, meta)
summarizeStress ==
    /\ eng = "runStressTest" /\ pc = "loop"
    /\ ~(balance > EPS /\ month < MAX_MONTHS /\ month < StressStopM(cfg))
    /\ pc' = "done"
    /\ LET endedEarly == StressStopAfter(cfg) # Null /\ Len(rows) >= StressStopAfter(cfg)
                         /\ balance > EPS
           status == IF cfg.mode = "steps" THEN "Stress test complete."
                     ELSE "ARM stress test complete."
       IN out' = IF rows = <<>>
                 THEN [status |-> status, payoffMonths |-> 0, endedEarly |-> endedEarly,
                       totalInterest |-> totalInterest]
                 ELSE [status |-> status, payoffMonths |-> Len(rows), endedEarly |-> endedEarly,
                       totalInterest |-> totalInterest,
                       worstPayment |-> WorstRow(rows, Len(rows)).payment,
                       worstMonth |-> WorstRow(rows, Len(rows)).month,
                       peakRate |-> PeakApr(rows, Len(rows)),
                       risk |-> riskScoreFromJump(rows[1].payment,
                                                  WorstRow(rows, Len(rows)).payment)]
    /\ UNCHANGED <<eng, cfg, loopVars, stressVars>>

\* --------------------------------- stress page (steps and ARM engines)
\* faulty variant: the payment is spread over one month more than remain
paymentForRemainingMonths_OneMore(bal, aprPercent, remainingMonths) ==
    LET n == Max(1, remainingMonths) + 1
    IN IF aprPercent = 0 THEN RDiv(bal, n) ELSE Annuity(bal, aprPercent, n)

\* paymentForRemainingMonths(balance, aprPercent, remainingMonths)
paymentForRemainingMonths(bal, aprPercent, remainingMonths) ==
    LET n == Max(1, remainingMonths)
    IN IF aprPercent = 0 THEN RDiv(bal, n) ELSE Annuity(bal, aprPercent, n)

\* the cfg objects run() builds for runStressSteps
StepsCfg ==
    [principal : {Dollar}, startApr : {0, 12}, termMonths : 1..MaxTerm,
     extraMonthly : {0, 500}, stepSize : StepSizes, everyMonths : {0 - 2, 0, 1, 2, 3},
     durationMonths : DurationRaw, capApr : Caps]
    \cup [principal : {100 * Dollar}, startApr : {0}, termMonths : {LongTerm},
          extraMonthly : {0}, stepSize : {0}, everyMonths : {3},
          durationMonths : {3}, capApr : {NaN}]
    \cup [principal : {Dollar}, startApr : {0}, termMonths : {2},
          extraMonthly : {0}, stepSize : {0 - 3600}, everyMonths : {1},
          durationMonths : {1}, capApr : {NaN}]

\* if (cfg.everyMonths > 0 && m <= cfg.durationMonths && (m % cfg.everyMonths === 0))
StepsBump(c, m) ==
    c.everyMonths > 0 /\ m <= c.durationMonths /\ JsRemIsZero(m, c.everyMonths)

runStressSteps_enter ==
    /\ eng = "runStressSteps" /\ pc = "call"
    /\ rows' = <<>>
    /\ balance' = cfg.principal
    /\ currentApr' = cfg.startApr
    /\ totalInterest' = 0
    /\ acc' = [worstPayment |-> 0, worstMonth |-> 1, peakRate |-> 0, peakMonth |-> 1]
    /\ month' = 0
    /\ pc' = "loop"
    /\ UNCHANGED <<eng, cfg, totalPaid, currentPayment, manualIdx, usedIndex, out>>

runStressSteps_iter ==
    /\ eng = "runStressSteps" /\ pc = "loop"
    /\ month + 1 <= cfg.termMonths /\ balance > EPS
    /\ LET m == month + 1
           bumped == currentApr + cfg.stepSize
           apr == IF StepsBump(cfg, m)
                  THEN (IF isFinite(cfg.capApr) THEN Min(bumped, cfg.capApr) ELSE bumped)
                  ELSE currentApr
           remainingMonths == cfg.termMonths - m + 1
           pay == paymentForRemainingMonths(balance, apr, remainingMonths)
           interest == InterestOf(balance, apr)
           principalPaid == Max(0, pay - interest)
       IN /\ month' = m
          /\ currentApr' = apr
          /\ balance' = Max(0, balance - principalPaid)
          /\ totalInterest' = totalInterest + interest
          /\ acc' = IF pay > acc.worstPayment
                    THEN [acc EXCEPT !.worstPayment = pay, !.worstMonth = m]
                    ELSE acc
          /\ rows' = Append(rows, [month |-> m, apr |-> apr, payment |-> pay,
                                   interest |-> interest, principal |-> principalPaid,
                                   balance |-> Max(0, balance - principalPaid),
                                   start |-> balance, sched |-> pay])
    /\ UNCHANGED <<eng, cfg, pc, totalPaid, currentPayment, manualIdx, usedIndex, out>>

\* run(): const startPay = out.rows[0]?.payment ?? NaN
StartPay(rs) == IF rs = <<>> THEN NaN ELSE rs[1].payment

\* run(): out.rows.reduce((m, r) => Math.max(m, r.apr), startApr)
StepsPeak(c, rs) ==
    LET seen == {c.startApr} \cup {rs[i].apr : i \in 1..Len(rs)}
    IN CHOOSE x \in seen : \A y \in seen : y <= x

\* run(): out.rows.find(r => r.apr === peak), its month; Null when no row has it
StepsPeakMonth(c, rs) ==
    LET hits == {i \in 1..Len(rs) : rs[i].apr = StepsPeak(c, rs)}
    IN IF hits = {} THEN Null ELSE rs[CHOOSE i \in hits : \A j \in hits : i <= j].month

\* the return of runStressSteps, then the outputs run() derives from it
runStressSteps_return ==
    /\ eng = "runStressSteps" /\ pc = "loop"
    /\ ~(month + 1 <= cfg.termMonths /\ balance > EPS)
    /\ pc' = "done"
    /\ out' = [status |-> "", totalInterest |-> totalInterest,
               worstPayment |-> acc.worstPayment, worstMonth |-> acc.worstMonth,
               peakRate |-> StepsPeak(cfg, rows), peakMonth |-> StepsPeakMonth(cfg, rows),
               risk |-> riskScore(StartPay(rows), acc.worstPayment)]
    /\ UNCHANGED <<eng, cfg, loopVars, stressVars>>

\* the cfg objects run() builds for runStressARM; manualSchedule is the list
\* parseManualSchedule returns (finite numbers only)
ManualSchedules == {<<30>>, <<6, 30>>, <<30, 6, 18>>}

ArmIndex ==
    [indexMode : {"constant"}, indexValue : {6, 30}, manualSchedule : {<<>>}]
    \cup [indexMode : {"manual_schedule"}, indexValue : {12}, manualSchedule : ManualSchedules]
    \cup [indexMode : {"treasury_history"}, indexValue : {6}, manualSchedule : {<<>>}]

ArmCfg ==
    [principal : {Dollar}, startApr : {12}, termMonths : 2..MaxTerm,
     fixedYears12 : {0, 1, 2}, adjustEveryMonths : {0, 1, 2, 3}, index : ArmIndex,
     margin : {0 - 3, 2}, periodicCap : {NaN, 4}, lifetimeCapAboveStart : {NaN, 3},
     floorApr : {NaN, 17}, simMonths : {Null, 3}]

\* clamp(v, lo, hi)
clamp(v, lo, hi) ==
    LET v1 == IF isFinite(lo) THEN Max(lo, v) ELSE v
    IN IF isFinite(hi) THEN Min(hi, v1) ELSE v1

Arm1MaxMonths(c) == IF c.simMonths = Null THEN c.termMonths ELSE c.simMonths

Arm1FixedMonths(c) == Max(0, c.fixedYears12)

Arm1AdjustEvery(c) == Max(1, c.adjustEveryMonths)

\* const isReset = (monthsAfterFixed % adjustEvery === 1)
Arm1IsReset(c, m) == JsRemIsOne(m - Arm1FixedMonths(c), Arm1AdjustEvery(c))

\* faulty variant: an exhausted manual schedule starts over instead of holding
Arm1IndexRate_Wraps(c, idx) ==
    IF c.index.indexMode = "constant" THEN c.index.indexValue
    ELSE IF c.index.indexMode = "manual_schedule"
         THEN c.index.manualSchedule[(idx % Len(c.index.manualSchedule)) + 1]
         ELSE (IF isFinite(c.index.indexValue) THEN c.index.indexValue ELSE c.startApr)

\* the index rate of a reset, given manualIdx
Arm1IndexRate(c, idx) ==
    IF c.index.indexMode = "constant" THEN c.index.indexValue
    ELSE IF c.index.indexMode = "manual_schedule"
         THEN (IF idx < Len(c.index.manualSchedule)
               THEN c.index.manualSchedule[idx + 1]
               ELSE c.index.manualSchedule[Len(c.index.manualSchedule)])
         ELSE (IF isFinite(c.index.indexValue) THEN c.index.indexValue ELSE c.startApr)

\* the rate of one reset: target, periodic cap, lifetime cap, floor
Arm1NextApr(c, cur, indexRate) ==
    LET targetApr == indexRate + c.margin
        n1 == IF isFinite(c.periodicCap)
              THEN clamp(targetApr, cur - c.periodicCap, cur + c.periodicCap)
              ELSE targetApr
        n2 == IF isFinite(c.lifetimeCapAboveStart)
              THEN Min(n1, c.startApr + c.lifetimeCapAboveStart) ELSE n1
    IN IF isFinite(c.floorApr) THEN Max(n2, c.floorApr) ELSE n2

runStressARM_enter ==
    /\ eng = "runStressARM" /\ pc = "call"
    /\ rows' = <<>>
    /\ balance' = cfg.principal
    /\ totalInterest' = 0
    /\ manualIdx' = 0
    /\ usedIndex' = <<>>
    /\ currentApr' = cfg.startApr
    /\ acc' = [worstPayment |-> 0, worstMonth |-> 1, peakRate |-> cfg.startApr, peakMonth |-> 1]
    /\ month' = 0
    /\ pc' = "loop"
    /\ UNCHANGED <<eng, cfg, totalPaid, currentPayment, out>>

runStressARM_iter ==
    /\ eng = "runStressARM" /\ pc = "loop"
    /\ month + 1 <= Arm1MaxMonths(cfg) /\ balance > EPS
    /\ LET m == month + 1
           fixed == m <= Arm1FixedMonths(cfg)
           isReset == ~fixed /\ Arm1IsReset(cfg, m)
           indexRate == Arm1IndexRate(cfg, manualIdx)
           apr == IF fixed THEN cfg.startApr
                  ELSE IF isReset THEN Arm1NextApr(cfg, currentApr, indexRate)
                  ELSE currentApr
           peak == Max(acc.peakRate, apr)
           remainingMonths == cfg.termMonths - m + 1
           pay == paymentForRemainingMonths(balance, apr, remainingMonths)
           interest == InterestOf(balance, apr)
           principalPaid == Max(0, pay - interest)
       IN /\ month' = m
          /\ currentApr' = apr
          /\ manualIdx' = IF isReset /\ cfg.index.indexMode = "manual_schedule"
                          THEN manualIdx + 1 ELSE manualIdx
          /\ usedIndex' = IF isReset THEN Append(usedIndex, [month |-> m, indexRate |-> indexRate])
                          ELSE usedIndex
          /\ balance' = Max(0, balance - principalPaid)
          /\ totalInterest' = totalInterest + interest
          /\ acc' = [worstPayment |-> IF pay > acc.worstPayment THEN pay ELSE acc.worstPayment,
                     worstMonth |-> IF pay > acc.worstPayment THEN m ELSE acc.worstMonth,
                     peakRate |-> peak,
                     peakMonth |-> IF peak = apr THEN m ELSE acc.peakMonth]
          /\ rows' = Append(rows, [month |-> m, apr |-> apr, payment |-> pay,
                                   interest |-> interest, principal |-> principalPaid,
                                   balance |-> Max(0, balance - principalPaid),
                                   start |-> balance, sched |-> pay])
    /\ UNCHANGED <<eng, cfg, pc, totalPaid, currentPayment, out>>

runStressARM_return ==
    /\ eng = "runStressARM" /\ pc = "loop"
    /\ ~(month + 1 <= Arm1MaxMonths(cfg) /\ balance > EPS)
    /\ pc' = "done"
    /\ out' = [status |-> "", totalInterest |-> totalInterest,
               worstPayment |-> acc.worstPayment, worstMonth |-> acc.worstMonth,
               peakRate |-> acc.peakRate, peakMonth |-> acc.peakMonth,
               risk |-> riskScore(StartPay(rows), acc.worstPayment)]
    /\ UNCHANGED <<eng, cfg, loopVars, stressVars>>

\* ------------------- the single-engine stress test, runStressTest(cfg)
\* monthlyPayment(P, apr, months)
monthlyPayment(P, apr, months) == IF apr = 0 THEN RDiv(P, months) ELSE Annuity(P, apr, months)

\* the cfg objects runStress() builds
ShockCfg ==
    [principal : {Dollar}, startApr : {0, 12}, maxMonths : 1..MaxTerm,
     shockSize : {6}, shockEvery : {0, 1, 2}, shockMonths : {0, 3},
     armResetEvery : {0, 2}, armDelta : {3}, armCap : {Infinity, 15}]

runStressTestCfg_enter ==
    /\ eng = "runStressTest(cfg)" /\ pc = "call"
    /\ balance' = cfg.principal
    /\ currentApr' = cfg.startApr
    /\ month' = 0
    /\ rows' = <<>>
    /\ acc' = [worstPayment |-> 0, worstMonth |-> 1, peakRate |-> 0, peakMonth |-> 1]
    /\ totalInterest' = 0
    /\ pc' = "loop"
    /\ UNCHANGED <<eng, cfg, totalPaid, currentPayment, manualIdx, usedIndex, out>>

runStressTestCfg_iter ==
    /\ eng = "runStressTest(cfg)" /\ pc = "loop"
    /\ balance > EPS /\ month < cfg.maxMonths
    /\ LET m == month + 1
           shocked == IF cfg.shockEvery > 0 /\ m <= cfg.shockMonths /\ JsRemIsZero(m, cfg.shockEvery)
                      THEN currentApr + cfg.shockSize ELSE currentApr
           rate == IF cfg.armResetEvery > 0 /\ JsRemIsZero(m, cfg.armResetEvery)
                   THEN Min(shocked + cfg.armDelta, cfg.armCap) ELSE shocked
           remainingMonths == Max(1, cfg.maxMonths - m + 1)
           payment == monthlyPayment(balance, rate, remainingMonths)
           interest == InterestOf(balance, rate)
           principalPaid == payment - interest
       IN /\ month' = m
          /\ currentApr' = rate
          /\ balance' = balance - principalPaid
          /\ totalInterest' = totalInterest + interest
          /\ acc' = [acc EXCEPT !.worstPayment = Max(acc.worstPayment, payment)]
          /\ rows' = Append(rows, [month |-> m, apr |-> rate, payment |-> payment,
                                   interest |-> interest, principal |-> principalPaid,
                                   balance |-> Max(0, balance - principalPaid),
                                   start |-> balance, sched |-> payment])
    /\ UNCHANGED <<eng, cfg, pc, totalPaid, currentPayment, manualIdx, usedIndex, out>>

runStressTestCfg_return ==
    /\ eng = "runStressTest(cfg)" /\ pc = "loop"
    /\ ~(balance > EPS /\ month < cfg.maxMonths)
    /\ pc' = "done"
    /\ out' = [status |-> "", months |-> Len(rows), maxPayment |-> acc.worstPayment,
               totalInterest |-> totalInterest]
    /\ UNCHANGED <<eng, cfg, loopVars, stressVars>>

\* ------------------------------------------------------- creditCardSim
CardInputs ==
    [balance : {100 * Dollar}, aprPercent : {0, 24}, mode : {"minimum"}, fixedPayment : {NaN}]
    \cup [balance : {2000 * Dollar}, aprPercent : {24}, mode : {"minimum"}, fixedPayment : {NaN}]
    \cup [balance : {100 * Dollar}, aprPercent : {0, 24}, mode : {"fixed"},
          fixedPayment : {Dollar, 2 * Dollar, 30 * Dollar, 200 * Dollar}]
    \cup [balance : {13 * Dollar}, aprPercent : {0}, mode : {"fixed"}, fixedPayment : {2 * EPS}]
    \cup [balance : {1260 * Dollar}, aprPercent : {24}, mode : {"minimum"}, fixedPayment : {NaN}]
    \cup [balance : {450}, aprPercent : {0}, mode : {"fixed"}, fixedPayment : {EPS}]

creditCardSim_enter ==
    /\ eng = "creditCardSim" /\ pc = "call"
    /\ balance' = cfg.balance
    /\ month' = 0
    /\ totalInterest' = 0
    /\ rows' = <<>>
    /\ pc' = "loop"
    /\ UNCHANGED <<eng, cfg, totalPaid, stressVars, out>>

\* faulty variant: the minimum payment without its floor of interest + 1
CardPayment_NoInterestFloor(c, b, interest) ==
    IF c.mode = "fixed" THEN c.fixedPayment
    ELSE Max(RDiv(2 * b, 100), 25 * Dollar)

\* let payment; if (mode === "fixed") ... else ...
CardPayment(c, b, interest) ==
    IF c.mode = "fixed" THEN c.fixedPayment
    ELSE Max(Max(RDiv(2 * b, 100), 25 * Dollar), interest + Dollar)

\* one iteration; the break of the early-exit rule leaves the loop at once
creditCardSim_iter ==
    /\ eng = "creditCardSim" /\ pc = "loop"
    /\ balance > EPS /\ month < CC_MAX_MONTHS
    /\ LET interest == InterestOf(balance, cfg.aprPercent)
           payment == Min(CardPayment(cfg, balance, interest), balance + interest)
       IN /\ totalInterest' = totalInterest + interest
          /\ balance' = balance + interest - payment
          /\ month' = month + 1
          /\ rows' = Append(rows, [month |-> month + 1, payment |-> payment,
                                   interest |-> interest, start |-> balance,
                                   balance |-> balance + interest - payment])
          /\ pc' = IF month + 1 > 3 /\ payment <= interest + EPS THEN "break" ELSE "loop"
    /\ UNCHANGED <<eng, cfg, totalPaid, stressVars, out>>

creditCardSim_return ==
    /\ eng = "creditCardSim"
    /\ \/ pc = "break"
       \/ pc = "loop" /\ ~(balance > EPS /\ month < CC_MAX_MONTHS)
    /\ pc' = "done"
    /\ totalPaid' = cfg.balance + totalInterest
    /\ out' = [status |-> "", months |-> month, totalInterest |-> totalInterest,
               totalPaid |-> cfg.balance + totalInterest, paidOff |-> balance <= EPS,
               broke |-> pc = "break"]
    /\ UNCHANGED <<eng, cfg, month, balance, rows, totalInterest, stressVars>>

\* creditCardSim(balance, aprPercent, mode, fixedPayment) as a value: the loop
\* from balance b after the given number of months
RECURSIVE CardLoop(_, _, _, _)
CardLoop(c, b, months, interestSoFar) ==
    IF b > EPS /\ months < CC_MAX_MONTHS
    THEN LET interest == InterestOf(b, c.aprPercent)
             payment == Min(CardPayment(c, b, interest), b + interest)
         IN IF months + 1 > 3 /\ payment <= interest + EPS
            THEN [b |-> b + interest - payment, months |-> months + 1,
                  totalInterest |-> interestSoFar + interest]
            ELSE CardLoop(c, b + interest - payment, months + 1, interestSoFar + interest)
    ELSE [b |-> b, months |-> months, totalInterest |-> interestSoFar]

CardSim(bal, aprPercent, mode, fixedPayment) ==
    LET c == [balance |-> bal, aprPercent |-> aprPercent, mode |-> mode,
              fixedPayment |-> fixedPayment]
        end == CardLoop(c, bal, 0, 0)
    IN [months |-> end.months, totalInterest |-> end.totalInterest,
        totalPaid |-> bal + end.totalInterest, paidOff |-> end.b <= EPS]

\* --------------------------------------------------- refinanceBreakeven
\* amortizationSchedule(principal, aprPercent, years, extraMonthly).schedule
\* as a value: the loop of amortizationSchedule from balance bal in month m
RECURSIVE AmortRows(_, _, _, _)
AmortRows(c, bal, m, done) ==
    IF bal > EPS /\ m < MAX_MONTHS
    THEN LET interest == IF c.aprPercent = 0 THEN 0 ELSE InterestOf(bal, c.aprPercent)
             payment == Min(AmortBase(c) + AmortExtra(c), bal + interest)
             principalPaid == payment - interest
         IN AmortRows(c, bal - principalPaid, m + 1,
                      Append(done, [month |-> m + 1, payment |-> payment,
                                    interest |-> interest, principal |-> principalPaid,
                                    balance |-> Max(0, bal - principalPaid),
                                    apr |-> c.aprPercent]))
    ELSE done

\* faulty variant: the extra amount is not passed on to the loop
AmortSchedule_ExtraIgnored(principal, aprPercent, months, extraMonthly) ==
    AmortRows([principal |-> principal, aprPercent |-> aprPercent, months |-> months,
               extraMonthly |-> 0], principal, 0, <<>>)

AmortSchedule(principal, aprPercent, months, extraMonthly) ==
    AmortRows([principal |-> principal, aprPercent |-> aprPercent, months |-> months,
               extraMonthly |-> extraMonthly], principal, 0, <<>>)

\* the arguments calculateAndRender passes; years and keepYears in months
\* (keepYears12 = 0 is a falsy keepYears, replaced by years)
RefiInputs ==
    [principal : {Dollar}, baseApr : Aprs, newApr : Aprs, months : {2, MaxTerm},
     extraMonthly : {0, 1640}, closingCosts : {0, 50, 300, 5000},
     keepYears12 : {0, 1, 3, MaxTerm + 2}]

\* Math.max(1, Math.round((keepYears || years) * 12))
RefiKeepMonths(c) == Max(1, IF c.keepYears12 = 0 THEN c.months ELSE c.keepYears12)

\* Math.min(keepMonths, Math.max(base.months, refi.months))
RefiMMax(c, base, refi) == Min(RefiKeepMonths(c), Max(Len(base), Len(refi)))

\* schedule[m - 1]?.payment ?? 0
RefiPay(schedule, m) == IF m <= Len(schedule) THEN schedule[m].payment ELSE 0

\* faulty variant: break-even needs the savings to exceed the costs
RefiReached_Strict(cumulativeSavings, closingCosts) == cumulativeSavings > closingCosts

\* cumulativeSavings >= closingCosts
RefiReached(cumulativeSavings, closingCosts) == cumulativeSavings >= closingCosts

\* schedule.slice(0, keepMonths).reduce((s, x) => s + x.payment, 0)
RECURSIVE RefiPaid(_, _)
RefiPaid(schedule, k) ==
    IF k = 0 THEN 0
    ELSE RefiPaid(schedule, k - 1) + (IF k <= Len(schedule) THEN schedule[k].payment ELSE 0)

\* faulty variant: the balance still owed at the horizon is left out
RefiRem_Dropped(schedule, keepMonths) == 0

\* schedule[Math.min(keepMonths, schedule.length) - 1]?.balance ?? 0
RefiRem(schedule, keepMonths) ==
    IF Min(keepMonths, Len(schedule)) >= 1
    THEN schedule[Min(keepMonths, Len(schedule))].balance ELSE 0

refinanceBreakeven_enter ==
    /\ eng = "refinanceBreakeven" /\ pc = "call"
    /\ acc' = [base |-> AmortSchedule(cfg.principal, cfg.baseApr, cfg.months, cfg.extraMonthly),
               refi |-> AmortSchedule(cfg.principal, cfg.newApr, cfg.months, cfg.extraMonthly),
               cumulativeSavings |-> 0, breakevenMonth |-> Null]
    /\ month' = 0
    /\ pc' = "loop"
    /\ UNCHANGED <<eng, cfg, balance, rows, totalInterest, totalPaid, currentApr,
                   currentPayment, manualIdx, usedIndex, out>>

refinanceBreakeven_iter ==
    /\ eng = "refinanceBreakeven" /\ pc = "loop"
    /\ month + 1 <= RefiMMax(cfg, acc.base, acc.refi)
    /\ LET m == month + 1
           cum == acc.cumulativeSavings + (RefiPay(acc.base, m) - RefiPay(acc.refi, m))
       IN /\ month' = m
          /\ acc' = [acc EXCEPT !.cumulativeSavings = cum,
                                !.breakevenMonth =
                                    IF acc.breakevenMonth = Null /\ RefiReached(cum, cfg.closingCosts)
                                    THEN m ELSE acc.breakevenMonth]
    /\ UNCHANGED <<eng, cfg, pc, balance, rows, totalInterest, totalPaid, currentApr,
                   currentPayment, manualIdx, usedIndex, out>>

refinanceBreakeven_return ==
    /\ eng = "refinanceBreakeven" /\ pc = "loop"
    /\ ~(month + 1 <= RefiMMax(cfg, acc.base, acc.refi))
    /\ pc' = "done"
    /\ LET keepMonths == RefiKeepMonths(cfg)
           baseNet == RefiPaid(acc.base, keepMonths) + RefiRem(acc.base, keepMonths)
           refiNet == RefiPaid(acc.refi, keepMonths) + RefiRem(acc.refi, keepMonths)
                      + cfg.closingCosts
       IN out' = [status |-> "", breakevenMonth |-> acc.breakevenMonth,
                  netSavings |-> baseNet - refiNet]
    /\ UNCHANGED <<eng, cfg, loopVars, stressVars>>

\* --------------------------------------------------- calculateAndRender
\* The values of the calculator form after safeNum; a term and the keep
\* period are given in months (years * 12).
LoanUI ==
    [loanType : {"mortgage"}, principal : {NaN, 0, Dollar}, apr : {NaN, 0 - 12, 0, 12},
     years12 : {NaN, 0, 2, MaxTerm}, extra : {0 - 500, 0, 500}, delta : {0 - 24, 0, 12},
     ccMode : {"minimum"}, ccFixedPayment : {NaN},
     refiNewApr : {NaN, 0 - 12, 12}, refiClosingCosts : {NaN, 50}, refiKeepYears12 : {NaN, 3}]

CardUI ==
    [loanType : {"creditcard"}, principal : {NaN, 0, Dollar}, apr : {NaN, 0 - 12, 0, 12},
     years12 : {NaN}, extra : {0}, delta : {0 - 24, 0, 12},
     ccMode : {"minimum", "fixed"}, ccFixedPayment : {NaN, 0, 30 * Dollar},
     refiNewApr : {NaN}, refiClosingCosts : {NaN}, refiKeepYears12 : {NaN}]
    \cup [loanType : {"creditcard"}, principal : {10 * Dollar}, apr : {0, 96},
          years12 : {NaN}, extra : {0}, delta : {0, 96},
          ccMode : {"fixed"}, ccFixedPayment : {8000},
          refiNewApr : {NaN}, refiClosingCosts : {NaN}, refiKeepYears12 : {NaN}]

\* validateInputs(): the message of the first failing test, "" when all pass
validateInputs(c) ==
    IF ~(c.principal > 0) THEN "Enter a loan balance greater than 0."
    ELSE IF ~(c.apr >= 0) THEN "Enter an annual interest rate (0 or higher)."
    ELSE IF c.loanType # "creditcard" /\ ~(c.years12 > 0)
    THEN "Enter loan length in years (greater than 0)."
    ELSE IF c.loanType # "creditcard" /\ ~(c.extra >= 0)
    THEN "Extra monthly amount must be 0 or higher."
    ELSE IF c.loanType = "creditcard" /\ c.ccMode = "fixed" /\ ~(c.ccFixedPayment > 0)
    THEN "Enter a fixed monthly payment greater than 0."
    ELSE ""

\* the rate steps of the scenario tables, in hundredths of a percent
ScenarioDeltas100 == {0, 25, 50, 100}

\* one invocation of a core simulation: its function and the principal, rate
\* (in hundredths of a percent) and term in months (Null for a card) it gets
CoreCall(fn, principal, rate100, months) ==
    [fn |-> fn, principal |-> principal, rate100 |-> rate100, months |-> months]

\* if (isFinite(refiApr) && isFinite(closingCosts) && closingCosts >= 0 && ...)
RefiEntered(c) ==
    /\ isFinite(c.refiNewApr) /\ isFinite(c.refiClosingCosts) /\ c.refiClosingCosts >= 0
    /\ isFinite(c.refiKeepYears12) /\ c.refiKeepYears12 > 0

\* the core simulations calculateAndRender runs once validateInputs passed
CoreCalls(c) ==
    IF c.loanType = "creditcard"
    THEN {CoreCall("creditCardSim", c.principal, 100 * c.apr, Null),
          CoreCall("creditCardSim", c.principal, 100 * (c.apr + c.delta), Null)}
         \cup {CoreCall("creditCardSim", c.principal, 100 * c.apr + d, Null) :
                   d \in ScenarioDeltas100}
    ELSE {CoreCall("amortizationSchedule", c.principal, 100 * c.apr + d, c.years12) :
             d \in ScenarioDeltas100}
         \cup {CoreCall("amortizationSchedule", c.principal, 100 * (c.apr + c.delta), c.years12)}
         \cup (IF RefiEntered(c)
               THEN {CoreCall("refinanceBreakeven", c.principal, 100 * c.apr, c.years12),
                     CoreCall("amortizationSchedule", c.principal, 100 * c.refiNewApr, c.years12)}
               ELSE {})

\* the text appended to a payoff time that is not a full payoff
MayNotPayOff == " (may not fully pay off)"

\* baseNote of a card: months, then base.paidOff ? "" : " (may not fully pay off)"
CardBaseNote(base) ==
    [months |-> base.months, note |-> IF base.paidOff THEN "" ELSE MayNotPayOff]

\* deltaMonthly of a card: `Scenario payoff time: ${next.months} months ...`
CardScenarioNote(next) == [months |-> next.months, note |-> ""]

\* renderScenarioTableCC: the rows of the rate steps that are whole percents
\* (0 and 1.00); a row shows `${sim.months} months` and the interest
CardTableRows(c) ==
    {LET sim == CardSim(c.principal, c.apr + d, c.ccMode, c.ccFixedPayment)
     IN [apr |-> c.apr + d, months |-> sim.months, note |-> "", paidOff |-> sim.paidOff] :
        d \in {0, 1}}

\* baseNote of a loan: `Payoff time: ${baseSched.months} months` and, with an
\* extra amount, " (includes extra monthly payments)"
LoanBaseNote(c, baseSched) ==
    [months |-> Len(baseSched),
     note |-> IF c.extra > 0 THEN " (includes extra monthly payments)" ELSE ""]

\* the arguments of amortizationSchedule(principal, apr, years, extra)
UILoan(c, apr) ==
    [principal |-> c.principal, aprPercent |-> apr, months |-> c.years12,
     extraMonthly |-> c.extra]

\* the whole click handler: validation, then the simulations and the outputs
calculateAndRender_call ==
    /\ eng = "calculateAndRender" /\ pc = "call"
    /\ pc' = "done"
    /\ out' = IF validateInputs(cfg) # ""
              THEN [status |-> validateInputs(cfg), calls |-> {}]
              ELSE IF cfg.loanType = "creditcard"
              THEN [status |-> "", calls |-> CoreCalls(cfg),
                    baseNote |-> CardBaseNote(
                        CardSim(cfg.principal, cfg.apr, cfg.ccMode, cfg.ccFixedPayment)),
                    deltaMonthly |-> CardScenarioNote(
                        CardSim(cfg.principal, cfg.apr + cfg.delta, cfg.ccMode,
                                cfg.ccFixedPayment)),
                    table |-> CardTableRows(cfg),
                    refiBreakeven |-> "-"]
              ELSE [status |-> "", calls |-> CoreCalls(cfg),
                    baseMonthly |-> AmortReportedBase(UILoan(cfg, cfg.apr),
                        AmortSchedule(cfg.principal, cfg.apr, cfg.years12, cfg.extra)),
                    newMonthly |-> AmortReportedBase(UILoan(cfg, cfg.apr + cfg.delta),
                        AmortSchedule(cfg.principal, cfg.apr + cfg.delta, cfg.years12, cfg.extra)),
                    baseMonths |-> Len(AmortSchedule(cfg.principal, cfg.apr, cfg.years12, cfg.extra)),
                    baseNote |-> LoanBaseNote(cfg,
                        AmortSchedule(cfg.principal, cfg.apr, cfg.years12, cfg.extra)),
                    refiBreakeven |-> IF RefiEntered(cfg) THEN "shown" ELSE "-"]
    /\ UNCHANGED <<eng, cfg, loopVars, stressVars>>

\* ------------------------- the calculator page: chart and CSV export
\* the two versions of the page script that src/app.js holds
PageDrafts == {"first", "current"}

\* forms that Calculate is clicked on: a loan with a schedule, a loan whose
\* balance is below a cent (empty schedule), a card, and invalid forms
PageInputs ==
    [loanType : {"mortgage"}, principal : {0, EPS \div 2, Dollar}, apr : {12},
     years12 : {2}, extra : {0}, delta : {0}, ccMode : {"minimum"},
     ccFixedPayment : {NaN}, refiNewApr : {NaN}, refiClosingCosts : {NaN},
     refiKeepYears12 : {NaN}]
    \cup [loanType : {"creditcard"}, principal : {0, Dollar}, apr : {12},
          years12 : {NaN}, extra : {0}, delta : {0}, ccMode : {"minimum"},
          ccFixedPayment : {NaN}, refiNewApr : {NaN}, refiClosingCosts : {NaN},
          refiKeepYears12 : {NaN}]

\* chart = null and lastBaselineSchedule = null (calculations count from 1)
NullChart == [calc |-> 0, mode |-> "-"]

NullSchedule == [calc |-> 0, length |-> 0]

\* buildChart(scheduleObj): the chart after the call; a schedule object is
\* the number of the calculation that made it and its number of rows
buildChart(page, scheduleObj) ==
    IF scheduleObj = NullSchedule \/ scheduleObj.length = 0 THEN page.chart
    ELSE [calc |-> scheduleObj.calc, mode |-> page.chartMode]

\* the script's top level: let chart = null, chartMode = "balance" and
\* lastBaselineSchedule = null; afterCard records that the last successful
\* calculation was a card's
page_load ==
    /\ eng = "page" /\ pc = "call"
    /\ pc' = "loop"
    /\ acc' = [chart |-> NullChart, chartMode |-> "balance",
               lastBaselineSchedule |-> NullSchedule,
               clicks |-> 0, afterCard |-> FALSE]
    /\ out' = [status |-> "", product |-> "none"]
    /\ UNCHANGED <<eng, cfg, loopVars, currentApr, currentPayment, manualIdx, usedIndex>>

\* a click on Calculate: calculateAndRender as far as chart and schedule go
page_calculate ==
    /\ eng = "page" /\ pc = "loop" /\ acc.clicks < MaxClicks
    /\ \E c \in PageInputs :
        LET n == acc.clicks + 1
            baseSched == [calc |-> n,
                          length |-> Len(AmortSchedule(c.principal, c.apr, c.years12, c.extra))]
        IN IF validateInputs(c) # ""
           THEN /\ acc' = [acc EXCEPT !.clicks = n]
                /\ out' = [status |-> validateInputs(c), product |-> "none"]
           ELSE IF c.loanType = "creditcard"
           THEN /\ acc' = [acc EXCEPT !.clicks = n, !.chart = NullChart, !.afterCard = TRUE,
                                      !.lastBaselineSchedule =
                                          IF cfg.draft = "current" THEN NullSchedule ELSE @]
                /\ out' = [status |-> "", product |-> "none"]
           ELSE /\ acc' = [acc EXCEPT !.clicks = n, !.afterCard = FALSE,
                                      !.lastBaselineSchedule = baseSched,
                                      !.chart = buildChart(acc, baseSched)]
                /\ out' = [status |-> "",
                           product |-> IF baseSched.length = 0 THEN "none" ELSE "chart"]
    /\ UNCHANGED <<eng, cfg, pc, loopVars, currentApr, currentPayment, manualIdx, usedIndex>>

\* a click on one of the two chart-mode buttons
page_chartMode ==
    /\ eng = "page" /\ pc = "loop" /\ acc.clicks < MaxClicks
    /\ \E mode \in {"balance", "split"} :
        LET page == [acc EXCEPT !.chartMode = mode, !.clicks = @ + 1]
        IN /\ acc' = [page EXCEPT !.chart = buildChart(page, page.lastBaselineSchedule)]
           /\ out' = [status |-> out.status,
                      product |-> IF page.lastBaselineSchedule.length > 0
                                  THEN "chart" ELSE "none"]
    /\ UNCHANGED <<eng, cfg, pc, loopVars, currentApr, currentPayment, manualIdx, usedIndex>>

\* a click on the CSV button (the first draft has none)
page_csv ==
    /\ eng = "page" /\ pc = "loop" /\ acc.clicks < MaxClicks
    /\ cfg.draft = "current"
    /\ acc' = [acc EXCEPT !.clicks = @ + 1]
    /\ out' = IF acc.lastBaselineSchedule.length = 0
              THEN [status |-> "Run a mortgage/auto/student calculation first to export a schedule.",
                    product |-> "none"]
              ELSE [status |-> "CSV downloaded.", product |-> "csv"]
    /\ UNCHANGED <<eng, cfg, pc, loopVars, currentApr, currentPayment, manualIdx, usedIndex>>

\* a click on Reset: resetAll
page_reset ==
    /\ eng = "page" /\ pc = "loop" /\ acc.clicks < MaxClicks
    /\ acc' = [acc EXCEPT !.clicks = @ + 1, !.chart = NullChart,
                           !.lastBaselineSchedule = NullSchedule]
    /\ out' = [status |-> "", product |-> "none"]
    /\ UNCHANGED <<eng, cfg, pc, loopVars, currentApr, currentPayment, manualIdx, usedIndex>>

\* ------------------------------- live rates: PMMS and Treasury fetches
\* the two scripts with a PMMS panel: the live-rates page and the calculator
RatesPages == {"rates.js", "app.js"}

\* what the feeds return while the page is open, in percent
Pmms30 == 7

Pmms15 == 6

TsyYield == 4

PmmsRate(product) == IF product = "30" THEN Pmms30 ELSE Pmms15

\* the global isFinite of JavaScript converts its argument to a number, and
\* null converts to 0
GlobalIsFinite(x) == x = Null \/ isFinite(x)

\* the script's top level and the load event; the displayed value is Null
\* while the page shows a dash.  In rates.js the load event starts a
\* Treasury fetch.
rates_load ==
    /\ eng = "rates" /\ pc = "call"
    /\ pc' = "loop"
    /\ acc' = [product |-> "30", pmmsValue |-> Null, inFlight |-> {},
               lastPMMS |-> [rate |-> Null, product |-> "30"],
               lastPmms |-> [fetched |-> FALSE, r30 |-> Null, r15 |-> Null],
               tsyInFlight |-> IF cfg.page = "rates.js" THEN 1 ELSE 0,
               lastTSY |-> [yield |-> Null], clipboard |-> Null,
               clicks |-> 0, fetches |-> 0, succeeded |-> FALSE]
    /\ out' = [handler |-> "load", status |-> "", wrote |-> FALSE, error |-> FALSE]
    /\ UNCHANGED <<eng, cfg, loopVars, currentApr, currentPayment, manualIdx, usedIndex>>

\* a click on the PMMS fetch button, up to the first await: fetchPMMS reads
\* the selector and blanks the value, fetchLatestPMMS only sets the status
fetchPMMS_click ==
    /\ eng = "rates" /\ pc = "loop" /\ acc.clicks < MaxClicks
    /\ acc' = [acc EXCEPT !.clicks = @ + 1, !.fetches = @ + 1,
                          !.inFlight = @ \cup {[id |-> acc.fetches + 1, product |-> acc.product]},
                          !.pmmsValue = IF cfg.page = "rates.js" THEN Null ELSE @]
    /\ out' = [handler |-> "fetch", status |-> "Fetching", wrote |-> FALSE, error |-> FALSE]
    /\ UNCHANGED <<eng, cfg, pc, loopVars, currentApr, currentPayment, manualIdx, usedIndex>>

\* the rest of a PMMS fetch, for any fetch in flight: it succeeds or fails
fetchPMMS_settle ==
    /\ eng = "rates" /\ pc = "loop"
    /\ \E f \in acc.inFlight : \E ok \in BOOLEAN :
        LET rest == [acc EXCEPT !.inFlight = @ \ {f}]
        IN IF ~ok
           THEN /\ acc' = rest
                /\ out' = [handler |-> "fetch", status |-> "Could not fetch PMMS",
                           wrote |-> FALSE, error |-> FALSE]
           ELSE /\ acc' = IF cfg.page = "rates.js"
                          THEN [rest EXCEPT !.succeeded = TRUE,
                                    !.lastPMMS = [rate |-> PmmsRate(f.product),
                                                  product |-> f.product],
                                    !.pmmsValue = PmmsRate(f.product)]
                          ELSE [rest EXCEPT !.succeeded = TRUE,
                                    !.lastPmms = [fetched |-> TRUE, r30 |-> Pmms30,
                                                  r15 |-> Pmms15],
                                    !.pmmsValue = PmmsRate(acc.product)]
                /\ out' = [handler |-> "fetch", status |-> "", wrote |-> FALSE,
                           error |-> FALSE]
    /\ UNCHANGED <<eng, cfg, pc, loopVars, currentApr, currentPayment, manualIdx, usedIndex>>

\* the product selector changes; only app.js listens to the change
pmmsProduct_change ==
    /\ eng = "rates" /\ pc = "loop" /\ acc.clicks < MaxClicks
    /\ \E p \in {"30", "15"} \ {acc.product} :
        acc' = [acc EXCEPT !.clicks = @ + 1, !.product = p,
                           !.pmmsValue = IF cfg.page = "app.js" /\ acc.lastPmms.fetched
                                         THEN (IF p = "30" THEN acc.lastPmms.r30
                                               ELSE acc.lastPmms.r15)
                                         ELSE @]
    /\ out' = [handler |-> "change", status |-> out.status, wrote |-> FALSE, error |-> FALSE]
    /\ UNCHANGED <<eng, cfg, pc, loopVars, currentApr, currentPayment, manualIdx, usedIndex>>

\* a Treasury fetch of the live-rates page: the click, then its outcome
fetchTreasuryYield_click ==
    /\ eng = "rates" /\ pc = "loop" /\ acc.clicks < MaxClicks /\ cfg.page = "rates.js"
    /\ acc' = [acc EXCEPT !.clicks = @ + 1, !.tsyInFlight = @ + 1]
    /\ out' = [handler |-> "fetch", status |-> "Fetching", wrote |-> FALSE, error |-> FALSE]
    /\ UNCHANGED <<eng, cfg, pc, loopVars, currentApr, currentPayment, manualIdx, usedIndex>>

fetchTreasuryYield_settle ==
    /\ eng = "rates" /\ pc = "loop" /\ acc.tsyInFlight > 0
    /\ \E ok \in BOOLEAN :
        /\ acc' = [acc EXCEPT !.tsyInFlight = @ - 1,
                              !.lastTSY = IF ok THEN [yield |-> TsyYield] ELSE @]
        /\ out' = [handler |-> "fetch",
                   status |-> IF ok THEN "" ELSE "Could not fetch Treasury yields",
                   wrote |-> FALSE, error |-> FALSE]
    /\ UNCHANGED <<eng, cfg, pc, loopVars, currentApr, currentPayment, manualIdx, usedIndex>>

\* the copy handlers of the live-rates page: stored is lastPMMS.rate or
\* lastTSY.yield.  stored.toFixed(2) throws a TypeError when stored is null.
CopyClick(handler, stored, firstMsg, okMsg) ==
    IF ~GlobalIsFinite(stored)
    THEN [handler |-> handler, status |-> firstMsg, wrote |-> FALSE, error |-> FALSE]
    ELSE IF stored = Null
    THEN [handler |-> handler, status |-> out.status, wrote |-> FALSE, error |-> TRUE]
    ELSE [handler |-> handler, status |-> okMsg, wrote |-> TRUE, error |-> FALSE]

pmmsCopy_click ==
    /\ eng = "rates" /\ pc = "loop" /\ acc.clicks < MaxClicks /\ cfg.page = "rates.js"
    /\ out' = CopyClick("pmmsCopy", acc.lastPMMS.rate, "Fetch a PMMS rate first.",
                        "Rate copied.")
    /\ acc' = [acc EXCEPT !.clicks = @ + 1,
                          !.clipboard = IF out'.wrote THEN acc.lastPMMS.rate ELSE @]
    /\ UNCHANGED <<eng, cfg, pc, loopVars, currentApr, currentPayment, manualIdx, usedIndex>>

tsyCopy_click ==
    /\ eng = "rates" /\ pc = "loop" /\ acc.clicks < MaxClicks /\ cfg.page = "rates.js"
    /\ out' = CopyClick("tsyCopy", acc.lastTSY.yield, "Fetch a Treasury yield first.",
                        "Yield copied.")
    /\ acc' = [acc EXCEPT !.clicks = @ + 1,
                          !.clipboard = IF out'.wrote THEN acc.lastTSY.yield ELSE @]
    /\ UNCHANGED <<eng, cfg, pc, loopVars, currentApr, currentPayment, manualIdx, usedIndex>>

\* ------------------------------------------- the risk label on its own
\* payments around the band limits of a 1-dollar month-1 payment
RiskInputs ==
    [startPay : {NaN, 0, Dollar},
     worstPay : {NaN, 0, 5000, Dollar, 11000, 11001, 12500, 12501, 14500, 14501, 2 * Dollar}]

riskScore_call ==
    /\ eng = "riskScore" /\ pc = "call"
    /\ pc' = "done"
    /\ out' = [status |-> "", risk |-> riskScore(cfg.startPay, cfg.worstPay)]
    /\ UNCHANGED <<eng, cfg, loopVars, stressVars>>

riskScoreFromJump_call ==
    /\ eng = "riskScoreFromJump" /\ pc = "call"
    /\ pc' = "done"
    /\ out' = [status |-> "", risk |-> riskScoreFromJump(cfg.startPay, cfg.worstPay)]
    /\ UNCHANGED <<eng, cfg, loopVars, stressVars>>

\* ------------------------------------------------------------ behaviour
Init ==
    /\ pc = "call"
    /\ month = 0 /\ balance = 0 /\ rows = <<>> /\ totalInterest = 0 /\ totalPaid = 0
    /\ currentApr = 0 /\ currentPayment = 0 /\ manualIdx = 0 /\ usedIndex = <<>>
    /\ acc = NoAcc /\ out = NoOut
    /\ \/ eng = "amortizationSchedule" /\ cfg \in AmortInputs
       \/ eng = "runStressTest" /\ cfg \in StepsUI \cup ArmUI \cup TreasuryUI \cup RejectedUI
       \/ eng = "runStressSteps" /\ cfg \in StepsCfg
       \/ eng = "runStressARM" /\ cfg \in ArmCfg
       \/ eng = "runStressTest(cfg)" /\ cfg \in ShockCfg
       \/ eng = "creditCardSim" /\ cfg \in CardInputs
       \/ eng \in {"riskScore", "riskScoreFromJump"} /\ cfg \in RiskInputs
       \/ eng = "refinanceBreakeven" /\ cfg \in RefiInputs
       \/ eng = "calculateAndRender" /\ cfg \in LoanUI \cup CardUI
       \/ eng = "page" /\ cfg \in [draft : PageDrafts]
       \/ eng = "rates" /\ cfg \in [page : RatesPages]

Next ==
    \/ amortizationSchedule_enter
    \/ amortizationSchedule_iter
    \/ amortizationSchedule_return
    \/ runStressTest_enter
    \/ simulateStressAmortized_iter
    \/ summarizeStress
    \/ runStressSteps_enter
    \/ runStressSteps_iter
    \/ runStressSteps_return
    \/ runStressARM_enter
    \/ runStressARM_iter
    \/ runStressARM_return
    \/ runStressTestCfg_enter
    \/ runStressTestCfg_iter
    \/ runStressTestCfg_return
    \/ creditCardSim_enter
    \/ creditCardSim_iter
    \/ creditCardSim_return
    \/ riskScore_call
    \/ riskScoreFromJump_call
    \/ refinanceBreakeven_enter
    \/ refinanceBreakeven_iter
    \/ refinanceBreakeven_return
    \/ calculateAndRender_call
    \/ page_load
    \/ page_calculate
    \/ page_chartMode
    \/ page_csv
    \/ page_reset
    \/ rates_load
    \/ fetchPMMS_click
    \/ fetchPMMS_settle
    \/ pmmsProduct_change
    \/ fetchTreasuryYield_click
    \/ fetchTreasuryYield_settle
    \/ pmmsCopy_click
    \/ tsyCopy_click

Spec == Init /\ [][Next]_vars

\* =============================================================== claims
LoanEngines == {"amortizationSchedule", "runStressTest", "runStressSteps", "runStressARM"}

\* the rate in effect before row i
PrevApr(i) == IF i = 1 THEN cfg.startApr ELSE rows[i - 1].apr

\* the extra payment the caller asked for (runStressARM is not given one)
ExtraAsked ==
    IF eng = "runStressTest" THEN cfg.extra
    ELSE IF eng = "runStressARM" THEN 0
    ELSE cfg.extraMonthly

\* C1: in every month-by-month loan engine, each month's payment is
\* min(scheduledPayment + max(0, extraMonthly), balance + interest), with the
\* interest balance * apr / 1200 taken on the month's starting balance.
C1_PaymentIsScheduledPlusExtraCapped ==
    eng \in LoanEngines =>
        \A i \in 1..Len(rows) :
            /\ rows[i].interest = InterestOf(rows[i].start, rows[i].apr)
            /\ rows[i].payment = Min(rows[i].sched + Max(0, ExtraAsked),
                                     rows[i].start + rows[i].interest)

\* the annuity payment that amortizes bal over n months at rate apr
ReAmortized(bal, apr, n) == IF apr = 0 THEN RDiv(bal, n) ELSE Annuity(bal, apr, n)

Abs(x) == IF x < 0 THEN 0 - x ELSE x

\* two payments computed from different balances agree up to rounding
PayTol == EPS \div 50

\* C2: in the variable-rate simulation, a month whose rate differs from the
\* rate of the scheduled payment gets the annuity payment of the current
\* balance over termMonths - (month - 1) months at the new rate; a month with
\* an unchanged rate keeps the scheduled payment.  (runStressARM recomputes
\* the payment every month, so there "unchanged" is up to rounding.)
C2_PaymentResetOnRateChange ==
    /\ eng = "runStressTest" =>
        \A i \in 1..Len(rows) :
            IF rows[i].apr # PrevApr(i)
            THEN rows[i].sched = ReAmortized(rows[i].start, rows[i].apr,
                                             cfg.termMonths - (i - 1))
            ELSE rows[i].sched = IF i = 1
                                 THEN ReAmortized(cfg.P0, cfg.startApr, cfg.termMonths)
                                 ELSE rows[i - 1].sched
    /\ eng = "runStressARM" =>
        \A i \in 1..Len(rows) :
            IF rows[i].apr # PrevApr(i)
            THEN rows[i].sched = ReAmortized(rows[i].start, rows[i].apr,
                                             cfg.termMonths - (i - 1))
            ELSE i > 1 => Abs(rows[i].sched - rows[i - 1].sched) <= PayTol

\* a variable-rate run in which the payment was reset by a rate change, once
\* to a rate of 0, and then kept through a month with an unchanged rate
C2_Witness ==
    /\ eng = "runStressTest" /\ pc = "done" /\ Len(rows) >= 4
    /\ \E i \in 2..Len(rows) :
           rows[i].apr # rows[i - 1].apr /\ rows[i].sched # rows[i - 1].sched
    /\ \E i \in 2..Len(rows) : rows[i].apr # rows[i - 1].apr /\ rows[i].apr = 0
    /\ \E i \in 3..Len(rows) :
           rows[i].apr = rows[i - 1].apr /\ rows[i - 1].apr # rows[i - 2].apr

\* C3: an amortized-loan simulation produces at most 1200 rows, creditCardSim
\* runs at most 600 months, and no loop runs a month once the balance is
\* at or below 0.01.
C3_LoopsBounded ==
    /\ eng \in LoanEngines => Len(rows) <= MAX_MONTHS
    /\ eng = "creditCardSim" => month <= CC_MAX_MONTHS
    /\ \A i \in 1..Len(rows) : rows[i].start > EPS

\* the every / duration / cap parameters of a step-shock run, as entered
StepEvery == IF eng = "runStressTest" THEN cfg.every ELSE cfg.everyMonths

StepDuration == IF eng = "runStressTest" THEN cfg.duration ELSE cfg.durationMonths

StepSize == IF eng = "runStressTest" THEN cfg.step ELSE cfg.stepSize

StepCap == IF eng = "runStressTest" THEN cfg.cap ELSE cfg.capApr

IsStepRun == eng = "runStressSteps" \/ (eng = "runStressTest" /\ cfg.mode = "steps")

\* C4: for everyMonths >= 1 the step-shock rate goes up by stepSize (clamped
\* to a finite capApr) exactly in the months k * everyMonths + 1 <= durationMonths,
\* k >= 1, and keeps its value in every other month.
C4_StepsBumpAtEveryPlusOne ==
    (IsStepRun /\ StepEvery >= 1) =>
        \A i \in 1..Len(rows) :
            IF i > 1 /\ (i - 1) % StepEvery = 0 /\ i <= StepDuration
            THEN rows[i].apr = IF isFinite(StepCap)
                               THEN Min(PrevApr(i) + StepSize, StepCap)
                               ELSE PrevApr(i) + StepSize
            ELSE rows[i].apr = PrevApr(i)

\* C5: for everyMonths >= 1 the rate in effect in month 1 of a step-shock
\* simulation is startApr.
C5_StepsMonthOneIsStart ==
    /\ (IsStepRun /\ StepEvery >= 1 /\ Len(rows) >= 1) => rows[1].apr = cfg.startApr
    /\ (eng = "runStressTest(cfg)" /\ cfg.shockEvery >= 1 /\ cfg.armResetEvery = 0
        /\ Len(rows) >= 1) => rows[1].apr = cfg.startApr

\* the parameters of an ARM run, as entered
IsArmRun == eng = "runStressARM" \/ (eng = "runStressTest" /\ cfg.mode = "arm")

ArmLifeCap == IF eng = "runStressTest" THEN cfg.lifetimeCap ELSE cfg.lifetimeCapAboveStart

ArmFloor == IF eng = "runStressTest" THEN cfg.floorRate ELSE cfg.floorApr

ArmCapsNonNegative ==
    /\ isFinite(cfg.periodicCap) => cfg.periodicCap >= 0
    /\ isFinite(ArmLifeCap) => ArmLifeCap >= 0

\* the index value of the k-th reset
ArmIndexAt(k) ==
    IF eng = "runStressTest" THEN ArmIndexValue(cfg)
    ELSE IF cfg.index.indexMode = "manual_schedule"
         THEN cfg.index.manualSchedule[Min(k, Len(cfg.index.manualSchedule))]
         ELSE cfg.index.indexValue

\* max(floor, min(start + lifetimeCap, clamp(target, last - cap, last + cap))),
\* a non-finite bound being skipped
CappedRate(target, last) ==
    LET a == IF isFinite(cfg.periodicCap)
             THEN Max(last - cfg.periodicCap, Min(last + cfg.periodicCap, target))
             ELSE target
        b == IF isFinite(ArmLifeCap) THEN Min(cfg.startApr + ArmLifeCap, a) ELSE a
    IN IF isFinite(ArmFloor) THEN Max(ArmFloor, b) ELSE b

\* C6: for adjustEveryMonths >= 1, in a month m > fixedMonths the ARM rate is
\* recomputed iff m - fixedMonths - 1 is a multiple of adjustEveryMonths, and
\* otherwise equals the rate of the month before.
C6_ArmResetsOnBoundaries ==
    (IsArmRun /\ cfg.adjustEveryMonths >= 1 /\ ArmCapsNonNegative) =>
        \A i \in (cfg.fixedYears12 + 1)..Len(rows) :
            LET since == i - cfg.fixedYears12 - 1
            IN IF since % cfg.adjustEveryMonths = 0
               THEN rows[i].apr =
                        CappedRate(ArmIndexAt((since \div cfg.adjustEveryMonths) + 1) + cfg.margin,
                                   PrevApr(i))
               ELSE rows[i].apr = PrevApr(i)

\* C7: in every month m <= round(fixedYears * 12) the ARM rate is startApr.
C7_ArmFixedPeriodKeepsStart ==
    IsArmRun =>
        \A i \in 1..Len(rows) : i <= cfg.fixedYears12 => rows[i].apr = cfg.startApr

\* an ARM run that went through a fixed period of two months and then reset
\* to another rate
C7_Witness ==
    /\ IsArmRun /\ cfg.fixedYears12 = 2 /\ Len(rows) >= 3
    /\ rows[2].apr = cfg.startApr /\ rows[3].apr # cfg.startApr

\* the months in which the code went through a reset, with the index it used
ResetEvents ==
    IF eng = "runStressARM" THEN {usedIndex[k] : k \in 1..Len(usedIndex)}
    ELSE {[month |-> i, indexRate |-> ArmIndexValue(cfg)] :
             i \in {j \in (ArmFixedMonths(cfg) + 1)..Len(rows) :
                       (j - ArmFixedMonths(cfg) - 1) % ArmAdjEvery(cfg) = 0}}

\* C8: at each ARM reset (a month in which the code recomputes the rate) with
\* non-negative caps the new rate is
\* max(floorApr, min(startApr + lifetimeCap, clamp(index + margin,
\* lastRate - periodicCap, lastRate + periodicCap))), non-finite bounds skipped.
C8_ArmResetRate ==
    (IsArmRun /\ ArmCapsNonNegative) =>
        \A e \in ResetEvents :
            rows[e.month].apr = CappedRate(e.indexRate + cfg.margin, PrevApr(e.month))

\* a reset in which all three bounds bind: the target is above the periodic
\* cap, the periodic cap is above the lifetime cap, and the floor is above both
C8_Witness ==
    /\ IsArmRun /\ ArmCapsNonNegative
    /\ isFinite(ArmFloor) /\ isFinite(ArmLifeCap) /\ isFinite(cfg.periodicCap)
    /\ \E e \in ResetEvents :
           /\ e.indexRate + cfg.margin > PrevApr(e.month) + cfg.periodicCap
           /\ PrevApr(e.month) + cfg.periodicCap > cfg.startApr + ArmLifeCap
           /\ ArmFloor > cfg.startApr + ArmLifeCap
           /\ rows[e.month].apr = ArmFloor

\* C9: with a manual index sequence s of length L >= 1, the k-th reset uses
\* s[k] for k <= L and s[L] afterwards; one value is consumed per reset and
\* none in any other month.  (Which months are resets is the matter of C6.)
C9_ManualScheduleConsumption ==
    (eng = "runStressARM" /\ cfg.index.indexMode = "manual_schedule"
     /\ Len(cfg.index.manualSchedule) >= 1) =>
        /\ manualIdx = Len(usedIndex)
        /\ \A k \in 1..Len(usedIndex) :
               /\ usedIndex[k].indexRate =
                      cfg.index.manualSchedule[Min(k, Len(cfg.index.manualSchedule))]
               /\ rows[usedIndex[k].month].apr =
                      Arm1NextApr(cfg, PrevApr(usedIndex[k].month),
                                  cfg.index.manualSchedule[Min(k, Len(cfg.index.manualSchedule))])

\* a run that used up a two-value sequence and reset once more, with months
\* between the resets
C9_Witness ==
    /\ eng = "runStressARM" /\ cfg.index.indexMode = "manual_schedule"
    /\ Len(cfg.index.manualSchedule) = 2 /\ Len(usedIndex) = 3
    /\ Len(rows) > Len(usedIndex)
    /\ cfg.index.manualSchedule[1] # cfg.index.manualSchedule[2]

\* C10: with everyMonths <= 0 the step-shock rate stays at startApr in every
\* month, and with adjustEveryMonths <= 0 the ARM rate is constant in all
\* months after the fixed period.
C10_NonPositiveIntervalMeansNoAdjustment ==
    /\ (IsStepRun /\ StepEvery <= 0) =>
           \A i \in 1..Len(rows) : rows[i].apr = cfg.startApr
    /\ (IsArmRun /\ cfg.adjustEveryMonths <= 0) =>
           \A i \in (cfg.fixedYears12 + 2)..Len(rows) : rows[i].apr = rows[i - 1].apr

\* ---------------------------------------------------------------- C11
RiskEngines == {"riskScore", "riskScoreFromJump", "runStressTest", "runStressSteps", "runStressARM"}

\* a finished run that shows a risk label
RiskShown == eng \in RiskEngines /\ pc = "done" /\ "risk" \in DOMAIN out

\* the month-1 payment and the worst payment the label was computed from
RiskStart == IF eng \in {"riskScore", "riskScoreFromJump"} THEN cfg.startPay ELSE StartPay(rows)

RiskWorst == IF eng \in {"riskScore", "riskScoreFromJump"} THEN cfg.worstPay ELSE out.worstPayment

\* C11: with jump = (worstPayment - month1Payment) / month1Payment the label
\* is Low for jump <= 10%, Moderate for 10% < jump <= 25%, High for
\* 25% < jump <= 45% and Severe above 45%; exactly 10% is Low, 10.01% is
\* Moderate.
C11_RiskLabelHasFourBands ==
    (RiskShown /\ RiskStart > 0 /\ RiskWorst > 0) =>
        LET d == 100 * (RiskWorst - RiskStart)
        IN /\ (d <= 10 * RiskStart) => out.risk = "Low"
           /\ (d > 10 * RiskStart /\ d <= 25 * RiskStart) => out.risk = "Moderate"
           /\ (d > 25 * RiskStart /\ d <= 45 * RiskStart) => out.risk = "High"
           /\ (d > 45 * RiskStart) => out.risk = "Severe"

\* ---------------------------------------------------------------- C12
StressEngines == {"runStressTest", "runStressSteps", "runStressARM"}

\* a finished stress run with at least one row and its summary
StressSummarized ==
    eng \in StressEngines /\ pc = "done" /\ rows # <<>> /\ "worstPayment" \in DOMAIN out

\* C12: worstPayment is the largest payment of the schedule and worstMonth the
\* month of a row with that payment; peakRate is the largest rate of the
\* schedule and peakMonth the month of a row with that rate.
C12_WorstAndPeakAreMaxima ==
    StressSummarized =>
        /\ \A i \in 1..Len(rows) : rows[i].payment <= out.worstPayment
        /\ \E i \in 1..Len(rows) :
               rows[i].month = out.worstMonth /\ rows[i].payment = out.worstPayment
        /\ \A i \in 1..Len(rows) : rows[i].apr <= out.peakRate
        /\ \E i \in 1..Len(rows) : rows[i].apr = out.peakRate
        /\ ("peakMonth" \in DOMAIN out) =>
               \E i \in 1..Len(rows) :
                   rows[i].month = out.peakMonth /\ rows[i].apr = out.peakRate

\* ---------------------------------------------------------------- C13
\* the balance at the start of the month of row i
CardStart(i) == IF i = 1 THEN cfg.balance ELSE rows[i - 1].balance

\* the payment the rule asks for on a starting balance b with that interest
CardRule(b, interest) ==
    IF cfg.mode = "fixed" THEN Min(cfg.fixedPayment, b + interest)
    ELSE Min(Max(Max(RDiv(2 * b, 100), 25 * Dollar), interest + Dollar), b + interest)

\* C13: each month of creditCardSim charges interest on the starting balance
\* b, pays min(fixedPayment, b + interest) in fixed mode and
\* min(max(0.02 b, 25, interest + 1), b + interest) in minimum mode, and
\* leaves b + interest - payment; the balance is never negative.
C13_CardMonth ==
    eng = "creditCardSim" =>
        /\ balance >= 0
        /\ rows # <<>> => balance = rows[Len(rows)].balance
        /\ \A i \in 1..Len(rows) :
               LET b == CardStart(i)
                   interest == RDiv(b * cfg.aprPercent, 1200)
               IN /\ rows[i].interest = interest
                  /\ rows[i].payment = CardRule(b, interest)
                  /\ rows[i].balance = b + interest - CardRule(b, interest)
                  /\ rows[i].balance >= 0

\* a paid-off minimum-mode run in which the floor of interest + 1, the plain
\* 25-dollar minimum and the final clamp to b + interest have each decided a payment
C13_Witness ==
    /\ eng = "creditCardSim" /\ pc = "done" /\ cfg.mode = "minimum" /\ balance = 0
    /\ \E i \in 1..Len(rows) :
           /\ rows[i].payment = rows[i].interest + Dollar
           /\ rows[i].payment > Max(RDiv(2 * CardStart(i), 100), 25 * Dollar)
    /\ \E i \in 1..Len(rows) :
           rows[i].payment = 25 * Dollar /\ rows[i].payment < CardStart(i) + rows[i].interest
    /\ rows[Len(rows)].payment = CardStart(Len(rows)) + rows[Len(rows)].interest
    /\ rows[Len(rows)].payment < 25 * Dollar

\* ---------------------------------------------------------------- C14
\* the early-exit rule holds of row i
CardEarlyExit(i) == rows[i].month > 3 /\ rows[i].payment <= rows[i].interest + EPS

\* one of the three stopping rules holds at the end of month i
CardStopsAt(i) == rows[i].balance <= EPS \/ rows[i].month >= 600 \/ CardEarlyExit(i)

\* C14: creditCardSim stops after the first month that ends with a balance
\* <= 0.01, or after 600 months, or at the first month > 3 with
\* payment <= interest + 0.01; a stop by that early-exit rule reports
\* paidOff = false, and paidOff is true only if the final balance is <= 0.01.
C14_CardStops ==
    (eng = "creditCardSim" /\ pc = "done") =>
        /\ out.months = Len(rows)
        /\ \A i \in 1..Len(rows) : rows[i].month = i
        /\ \A i \in 1..(Len(rows) - 1) : ~CardStopsAt(i)
        /\ rows # <<>> => CardStopsAt(Len(rows))
        /\ (rows # <<>> /\ CardEarlyExit(Len(rows))) => out.paidOff = FALSE
        /\ out.paidOff => balance <= EPS

\* ---------------------------------------------------------------- C15
RefiDone == eng = "refinanceBreakeven" /\ pc = "done"

\* the payment of month i of a schedule, 0 past its end
PayIn(schedule, i) == IF i \in 1..Len(schedule) THEN schedule[i].payment ELSE 0

\* the sum over months 1..m of basePayment(i) - refiPayment(i)
RECURSIVE SavingsUpTo(_)
SavingsUpTo(m) ==
    IF m = 0 THEN 0
    ELSE SavingsUpTo(m - 1) + PayIn(acc.base, m) - PayIn(acc.refi, m)

RefiHorizon == Min(RefiKeepMonths(cfg), Max(Len(acc.base), Len(acc.refi)))

BreakevenMonths == {m \in 1..RefiHorizon : SavingsUpTo(m) >= cfg.closingCosts}

\* C15: breakevenMonth is the smallest month of the horizon
\* 1..min(keepMonths, max(baseMonths, refiMonths)) at which the summed payment
\* difference reaches closingCosts, and none when there is no such month.
C15_BreakevenIsFirstMonth ==
    RefiDone =>
        IF BreakevenMonths = {} THEN out.breakevenMonth = Null
        ELSE /\ out.breakevenMonth \in BreakevenMonths
             /\ \A m \in BreakevenMonths : out.breakevenMonth <= m

\* break-even after the first month, with positive costs, in a horizon that
\* runs past the end of the shorter schedule
C15_Witness ==
    /\ RefiDone /\ cfg.closingCosts > 0
    /\ out.breakevenMonth # Null /\ out.breakevenMonth > 1
    /\ Len(acc.base) # Len(acc.refi)
    /\ RefiHorizon > Min(Len(acc.base), Len(acc.refi))

\* ---------------------------------------------------------------- C16
\* the sum of the payments of months 1..k of a schedule
RECURSIVE PaidUpTo(_, _)
PaidUpTo(schedule, k) == IF k = 0 THEN 0 ELSE PaidUpTo(schedule, k - 1) + PayIn(schedule, k)

\* the balance at the end of month min(keepMonths, length) of a schedule
OwedAtHorizon(schedule) == schedule[Min(RefiKeepMonths(cfg), Len(schedule))].balance

\* C16: netSavings is (baseline payments of months 1..keepMonths + baseline
\* balance still owed at the horizon) minus (refinance payments of months
\* 1..keepMonths + refinance balance still owed at the horizon + closingCosts).
C16_NetSavings ==
    (RefiDone /\ acc.base # <<>> /\ acc.refi # <<>>) =>
        out.netSavings =
            (PaidUpTo(acc.base, RefiKeepMonths(cfg)) + OwedAtHorizon(acc.base))
            - (PaidUpTo(acc.refi, RefiKeepMonths(cfg)) + OwedAtHorizon(acc.refi)
               + cfg.closingCosts)

\* a horizon shorter than both loans, which still owe different balances
C16_Witness ==
    /\ RefiDone /\ cfg.closingCosts > 0
    /\ RefiKeepMonths(cfg) < Len(acc.base) /\ RefiKeepMonths(cfg) < Len(acc.refi)
    /\ OwedAtHorizon(acc.base) > 0 /\ OwedAtHorizon(acc.refi) > 0
    /\ OwedAtHorizon(acc.base) # OwedAtHorizon(acc.refi)

\* ---------------------------------------------------------------- C17
\* a finished flat-rate schedule with a valid extra amount (the 1201-month
\* run is compared in C3 and left out of the comparisons of schedules)
AmortDone ==
    eng = "amortizationSchedule" /\ pc = "done" /\ cfg.extraMonthly >= 0
    /\ cfg.months <= MaxTerm + 1

\* larger extra amounts to compare the finished run with
MoreExtra == {cfg.extraMonthly + 100, cfg.extraMonthly + 200}

\* the schedule of the same loan with extra amount e
WithExtra(e) == AmortSchedule(cfg.principal, cfg.aprPercent, cfg.months, e)

RECURSIVE InterestUpTo(_, _)
InterestUpTo(schedule, k) ==
    IF k = 0 THEN 0 ELSE InterestUpTo(schedule, k - 1) + schedule[k].interest

InterestOfSchedule(schedule) == InterestUpTo(schedule, Len(schedule))

\* C17 as stated: a larger extraMonthly strictly decreases totalInterest and
\* the schedule length, and leaves both unchanged only if the schedule already
\* has the minimum length 1.
C17_ExtraStrictlyDecreases ==
    AmortDone =>
        \A e \in MoreExtra :
            \/ /\ InterestOfSchedule(WithExtra(e)) < out.totalInterest
               /\ Len(WithExtra(e)) < out.months
            \/ /\ out.months = 1
               /\ InterestOfSchedule(WithExtra(e)) = out.totalInterest
               /\ Len(WithExtra(e)) = out.months

\* C17 amended: a larger extraMonthly never increases totalInterest or the
\* schedule length; month by month the balance is never higher.
C17_ExtraNeverIncreases ==
    AmortDone =>
        \A e \in MoreExtra :
            /\ InterestOfSchedule(WithExtra(e)) <= out.totalInterest
            /\ Len(WithExtra(e)) <= out.months
            /\ \A i \in 1..Len(WithExtra(e)) : WithExtra(e)[i].balance <= rows[i].balance

\* one larger extra shortens the schedule and lowers the interest, another
\* lowers the interest and leaves a schedule of more than one month as long
C17_Witness ==
    /\ AmortDone /\ out.months > 1
    /\ \E e \in MoreExtra :
           /\ Len(WithExtra(e)) < out.months
           /\ InterestOfSchedule(WithExtra(e)) < out.totalInterest
    /\ \E e \in MoreExtra :
           /\ Len(WithExtra(e)) = out.months
           /\ InterestOfSchedule(WithExtra(e)) < out.totalInterest

\* ---------------------------------------------------------------- C18
\* a finished flat-rate schedule of a loan with apr >= 0, a term of at most
\* 1200 months and extraMonthly >= 0
FlatDone ==
    eng = "amortizationSchedule" /\ pc = "done" /\ cfg.extraMonthly >= 0
    /\ cfg.aprPercent >= 0 /\ cfg.months <= MAX_MONTHS

\* C18: the schedule has at most n rows; with apr = 0 and extraMonthly = 0 it
\* has exactly n rows, each paying principal / n (to the rounding of n months).
C18_RowsWithinTerm ==
    FlatDone =>
        /\ Len(rows) <= cfg.months
        /\ (cfg.aprPercent = 0 /\ cfg.extraMonthly = 0) =>
               /\ Len(rows) = cfg.months
               /\ \A i \in 1..Len(rows) :
                      Abs(cfg.months * rows[i].payment - cfg.principal) <= cfg.months * cfg.months

\* ---------------------------------------------------------------- C19
\* the rounding that the payments of a schedule can add up to
PaidTol == 2 * Len(rows)

UIDone == eng = "calculateAndRender" /\ pc = "done"

\* the values the handler would pass on: the scenario rate and, when the
\* refinance fields are filled in, the refinance rate
ScenarioRate == cfg.apr + cfg.delta

\* C20: the core simulations are invoked only with principal > 0, rate >= 0
\* and term > 0; when one of these fails for a value the handler would pass
\* on (the scenario rate apr + delta and the refinance rate included) a
\* blocking status message is shown and no core simulation runs.
C20_CoreGetsValidInputsOnly ==
    UIDone =>
        /\ \A c \in out.calls :
               /\ c.principal > 0
               /\ c.rate100 >= 0
               /\ c.fn # "creditCardSim" => c.months > 0
        /\ out.status # "" => out.calls = {}
        /\ (~(cfg.principal > 0) \/ ~(cfg.apr >= 0) \/ ~(ScenarioRate >= 0)
            \/ (cfg.loanType # "creditcard" /\ ~(cfg.years12 > 0))
            \/ (cfg.loanType # "creditcard" /\ isFinite(cfg.refiNewApr) /\ cfg.refiNewApr < 0))
           => out.status # ""

\* ---------------------------------------------------------------- C21
\* a card calculation that was displayed
CardShown == UIDone /\ out.status = "" /\ cfg.loanType = "creditcard"

\* a loan calculation that was displayed
LoanShown == UIDone /\ out.status = "" /\ cfg.loanType # "creditcard"

\* the simulations behind the displayed card results
CardBase == CardSim(cfg.principal, cfg.apr, cfg.ccMode, cfg.ccFixedPayment)

CardScenario == CardSim(cfg.principal, cfg.apr + cfg.delta, cfg.ccMode, cfg.ccFixedPayment)

\* the baseline schedule behind the displayed loan result
LoanBase == AmortSchedule(cfg.principal, cfg.apr, cfg.years12, cfg.extra)

\* C21: a displayed result of a simulation that ended without full payoff (a
\* card baseline, scenario or table row with paidOff = false, or a loan
\* schedule that hit the 1200-month ceiling with a balance above 0.01)
\* carries the "may not fully pay off" indication.
C21_UnpaidResultsAreMarked ==
    /\ CardShown =>
           /\ ~CardBase.paidOff => out.baseNote.note = MayNotPayOff
           /\ ~CardScenario.paidOff => out.deltaMonthly.note = MayNotPayOff
           /\ \A r \in out.table : ~r.paidOff => r.note = MayNotPayOff
    /\ LoanShown =>
           ((Len(LoanBase) = MAX_MONTHS /\ LoanBase[Len(LoanBase)].balance > EPS)
               => out.baseNote.note = MayNotPayOff)

\* ---------------------------------------------------------------- C22
\* an ARM stress run of the calculator's stress page that has returned, asked
\* with the Treasury feed as index source, no feed value loaded, and a valid
\* balance, term, starting rate and typed index value
TreasuryRunWithoutFeed ==
    /\ eng = "runStressTest" /\ pc = "done" /\ cfg.mode = "arm"
    /\ cfg.armIndexSource = "treasury" /\ cfg.lastTsy = Null
    /\ cfg.P0 > 0 /\ cfg.termMonths > 0 /\ cfg.startApr >= 0 /\ cfg.indexRate >= 0

\* the same request on the stress page of the older draft
TreasuryRunWithoutFeed1 ==
    /\ eng = "runStressARM" /\ pc = "done"
    /\ cfg.index.indexMode = "treasury_history"

\* C22: an ARM stress run whose index source is the Treasury feed, asked with
\* otherwise valid inputs while no feed value is available, completes and
\* produces a result (it is not refused).
C22_TreasuryRunFallsBack ==
    /\ TreasuryRunWithoutFeed => out.status = "ARM stress test complete." /\ Len(rows) > 0
    /\ TreasuryRunWithoutFeed1 => out.status = "" /\ Len(rows) > 0

\* ---------------------------------------------------------------- C23
\* the amortized-loan simulations that produce a schedule
ScheduleEngines ==
    {"amortizationSchedule", "runStressTest", "runStressSteps", "runStressARM",
     "runStressTest(cfg)"}

\* the balance before row i: the principal for row 1
PrevBalance(i) ==
    IF i > 1 THEN rows[i - 1].balance
    ELSE IF eng = "runStressTest" THEN cfg.P0 ELSE cfg.principal

\* C23: every row of a schedule of an amortized-loan simulation satisfies
\* payment = interest + principal and balance = max(0, previous balance -
\* principal), and the month numbers of the rows are 1, 2, ..., k.
C23_RowsAddUp ==
    eng \in ScheduleEngines =>
        \A i \in 1..Len(rows) :
            /\ rows[i].payment = rows[i].interest + rows[i].principal
            /\ rows[i].balance = Max(0, PrevBalance(i) - rows[i].principal)
            /\ rows[i].month = i

\* ---------------------------------------------------------------- C24
\* the rate the generated path of the calculator's stress page holds for
\* month m (Null where the path has no entry)
PathRate(m) == IF eng = "runStressTest" THEN RatePathGet(cfg, m) ELSE Null

\* C24: every rate of a generated rate path (step shocks or ARM) is >= 0 in
\* every month, for the policy parameters the stress pages accept: the
\* entries of the path built by runStressTest and the rate of every
\* simulated month of the three stress simulations.
C24_RatesNeverNegative ==
    eng \in StressEngines =>
        /\ \A i \in 1..Len(rows) : rows[i].apr >= 0
        /\ \A m \in 1..Len(rows) : PathRate(m) # Null => PathRate(m) >= 0

\* ---------------------------------------------------------------- C25
\* the original term of a stress run, in months
TermMonths == cfg.termMonths

\* the run was asked without a simulation cap
NoSimCap ==
    IF eng = "runStressTest" THEN StressStopAfter(cfg) = Null
    ELSE IF eng = "runStressARM" THEN cfg.simMonths = Null
    ELSE TRUE

\* a finished variable-rate run without cap, with a term of at most 1200
\* months and no negative rate
FullTermRun ==
    /\ eng \in StressEngines /\ pc = "done" /\ rows # <<>>
    /\ NoSimCap /\ TermMonths <= MAX_MONTHS
    /\ cfg.startApr >= 0 /\ \A i \in 1..Len(rows) : rows[i].apr >= 0

\* C25: a variable-rate stress simulation with no simulation cap, a term of
\* at most 1200 months and rates >= 0 ends with the loan fully amortized: at
\* most termMonths rows and a last balance <= 0.01, whatever the path does.
C25_AmortizedByEndOfTerm ==
    FullTermRun => /\ Len(rows) <= TermMonths
                   /\ rows[Len(rows)].balance <= EPS

\* a full-term run whose rate changed twice on the way and that took the
\* whole term
C25_Witness ==
    /\ FullTermRun /\ Len(rows) = TermMonths /\ TermMonths >= 4
    /\ \E i, j \in 1..Len(rows) :
           /\ i < j /\ rows[i].apr # cfg.startApr /\ rows[j].apr # rows[i].apr
    /\ rows[Len(rows)].balance <= EPS

\* ---------------------------------------------------------------- C26
\* a run of creditCardSim under the minimum-payment policy
MinimumRun == eng = "creditCardSim" /\ cfg.mode = "minimum"

\* C26: under the minimum-payment policy the balance decreases by at least
\* min($1, balance) in every simulated month, the early-exit rule never
\* fires, and the simulation ends by payoff or at the 600-month ceiling.
C26_MinimumAlwaysReduces ==
    MinimumRun =>
        /\ \A i \in 1..Len(rows) :
               CardStart(i) - rows[i].balance >= Min(Dollar, CardStart(i))
        /\ \A i \in 1..Len(rows) : ~CardEarlyExit(i)
        /\ pc # "break"
        /\ pc = "done" => ~out.broke /\ (out.paidOff \/ out.months = CC_MAX_MONTHS)

\* a minimum-mode run that ended at the ceiling, unpaid, after months in
\* which the balance fell by exactly one dollar
C26_Witness ==
    /\ MinimumRun /\ pc = "done" /\ out.months = CC_MAX_MONTHS /\ ~out.paidOff
    /\ \E i \in 4..Len(rows) : CardStart(i) - rows[i].balance = Dollar

\* ---------------------------------------------------------------- C27
\* the payments made in months lo..hi of the run (the sum is split in halves)
RECURSIVE PaymentsMade(_, _)
PaymentsMade(lo, hi) ==
    IF lo > hi THEN 0
    ELSE IF lo = hi THEN rows[lo].payment
    ELSE LET mid == (lo + hi) \div 2
         IN PaymentsMade(lo, mid) + PaymentsMade(mid + 1, hi)

\* a finished run of creditCardSim
CardDone == eng = "creditCardSim" /\ pc = "done"

\* C27: the totalPaid reported by creditCardSim is the sum of the payments
\* made over the simulated months, for every outcome, paidOff = false
\* included.
C27_TotalPaidIsSumOfPayments ==
    CardDone => out.totalPaid = PaymentsMade(1, Len(rows))

\* ---------------------------------------------------------------- C28
\* the calculator page is loaded and its last successful calculation was a
\* card's
AfterCardCalculation == eng = "page" /\ pc = "loop" /\ acc.afterCard

\* C28: after a credit-card calculation no chart is displayed and no
\* schedule is retained: until a loan calculation succeeds, no click on a
\* chart-mode button or on the CSV button produces a chart or an export of
\* an earlier loan calculation's schedule.
C28_NoChartAfterCard ==
    AfterCardCalculation =>
        /\ acc.chart = NullChart
        /\ acc.lastBaselineSchedule = NullSchedule
        /\ out.product = "none"

\* ---------------------------------------------------------------- C29
\* the PMMS panel is quiet: no fetch in flight, after at least one success
PmmsQuiet == eng = "rates" /\ pc = "loop" /\ acc.inFlight = {} /\ acc.succeeded

\* the stored last rate, read for the selected product
StoredPmmsRate ==
    IF cfg.page = "rates.js" THEN acc.lastPMMS.rate
    ELSE IF acc.product = "30" THEN acc.lastPmms.r30 ELSE acc.lastPmms.r15

\* C29: for any interleaving of PMMS fetch clicks, fetch completions and
\* product-selector changes, once no fetch is in flight after at least one
\* success, the displayed PMMS rate and the stored last rate are the rate of
\* the currently selected product.
C29_PmmsShowsSelectedProduct ==
    PmmsQuiet => /\ acc.pmmsValue = PmmsRate(acc.product)
                 /\ StoredPmmsRate = PmmsRate(acc.product)

\* ---------------------------------------------------------------- C30
\* a copy button of the live-rates page was just clicked while the value it
\* copies was still null
CopiedBeforeFetch ==
    /\ eng = "rates" /\ pc = "loop" /\ cfg.page = "rates.js"
    /\ \/ out.handler = "pmmsCopy" /\ acc.lastPMMS.rate = Null
       \/ out.handler = "tsyCopy" /\ acc.lastTSY.yield = Null

\* C30: a click on a copy button before any successful fetch writes nothing
\* to the clipboard and only shows "Fetch a PMMS rate first." or "Fetch a
\* Treasury yield first.", without raising an error.
C30_CopyBeforeFetchOnlyWarns ==
    CopiedBeforeFetch =>
        /\ ~out.wrote
        /\ ~out.error
        /\ out.status = IF out.handler = "pmmsCopy" THEN "Fetch a PMMS rate first."
                        ELSE "Fetch a Treasury yield first."

====
